---- MODULE Spec2Model ----
(***************************************************************************)
(* SoleStride backend: the order-placement transaction of                  *)
(* src/src/routes/user.js (POST /orders) over the products, orders and     *)
(* order_items tables of migration 006, together with the admin product    *)
(* routes of src/src/routes/admin.js that write the same product rows.     *)
(*                                                                         *)
(* The store is PostgreSQL reached through a pooled client.  One store     *)
(* call (one await) is one step.  A transaction keeps its writes in a      *)
(* private workspace until COMMIT; SELECT ... FOR UPDATE and UPDATE take   *)
(* the row lock of an existing row and hold it until the transaction ends. *)
(* A store call may raise an error; a statement error leaves the           *)
(* transaction aborted (its locks are kept until ROLLBACK), and an error   *)
(* raised by ROLLBACK itself means the session is gone, so the store       *)
(* discards the transaction.                                               *)
(*                                                                         *)
(* Money is counted in thousandths so that the rounding of the             *)
(* DECIMAL(10,2) columns is visible.                                       *)
(***************************************************************************)
EXTENDS Integers, Sequences, FiniteSets, TLC

\* ------------------------------------------------------------------ bounds
MaxStock == 2
MaxQty == 2
MaxItems == 2
MaxFaults == 1
MaxAdminOps == 2
MaxCalls == 3
MaxSec == 1
MaxCodes == 2
MaxAuthOps == 5
MaxFiles == 3
MaxGateOps == 3
MaxViews == 2

\* --------------------------------------------------------------- universes
Reqs == {"r1", "r2"}
Admins == {"a1"}
Callers == {"c1", "c2"}
Sessions == {"s1", "s2"}
Users == {"u1", "u2"}
Passwords == {"pw", "bad"}
ProductIds == {"p1", "p2"}
Undefined == "undefined"
NoLock == "none"

\* req.userId, set by authenticate from the access token of the request
SessionUser(r) == IF r = "r1" THEN "u1" ELSE "u2"

\* the rows the catalog starts from: name and price of each product id
CatalogName(p) == IF p = "p1" THEN "Sneaker" ELSE "Boot"
CatalogPrice(p) == IF p = "p1" THEN 19990 ELSE 29990

\* error codes a store call may raise (pg SQLSTATE): foreign-key violation,
\* deadlock detected, connection failure
FaultCodes == {"23503", "40P01", "08006"}

\* what each store call can raise: the connection can fail under any call, a
\* call that waits for a row lock can be chosen as the deadlock victim, and
\* an INSERT can violate a foreign key (orders.user_id when the user row was
\* deleted after authenticate)
MayRaise(call) ==
  IF call \in {"select", "update"} THEN {"40P01", "08006"}
  ELSE IF call \in {"insertOrder", "insertItem"} THEN {"23503", "08006"}
  ELSE {"08006"}

VARIABLES
  products,     \* committed table products: id -> row
  orders,       \* committed table orders: set of rows
  order_items,  \* committed table order_items: set of rows
  lock,         \* row lock of each product: holder or NoLock
  tx,           \* per request: the transaction of its client
  pc,           \* per request: the store call the handler awaits
  req,          \* per request: req.body
  idx,          \* per request: position of the for-of loop
  client,       \* per request: the handler holds a pool client
  product,      \* per request: stockResult.rows[0] of the last SELECT
  err,          \* per request: the error caught
  res,          \* per request: the responses sent
  nextCalls,    \* per request: calls of next(error)
  acquires,     \* per request: clients acquired
  releases,     \* per request: calls of client.release()
  escaped,      \* per request: the handler's promise rejected
  faults,       \* store errors raised so far
  stock0,       \* the products table at the start
  apc,          \* per admin request: the store call the handler awaits
  areq,         \* per admin request: req.params.productId and req.body
  current,      \* per admin request: currentResult.rows[0]
  adminOps,     \* admin requests answered so far
  fpc,          \* per caller of a stock function: the statement it is at
  fargs,        \* per caller: the function called, p_product_id, p_quantity
  v_current_stock, \* per caller: the variable of decrement_stock
  fret,         \* per caller: the values returned so far
  calls,        \* calls of the stock functions made so far
  users,        \* committed table users: id -> row
  refresh_tokens, \* committed table refresh_tokens: set of rows
  sec,          \* the clock in seconds, as jwt.sign reads it for iat
  tokens,       \* verification tokens generated so far
  issued,       \* refresh tokens sent to clients so far
  holders,      \* users to whom an access token was sent
  spc,          \* per auth request: the store call the handler awaits
  sreq,         \* per auth request: the route and req.body / req.cookies
  sres,         \* per auth request: the last response sent
  authOps,      \* auth requests received so far
  refreshToken, \* per login request: the refresh token authenticateUser signed
  mpc,          \* runMigrations: the statement it is at
  migrationsDir, \* the file names of the migrations directory, as readdirSync lists them
  migrationFiles, \* runMigrations: the filtered and sorted file names
  fileIdx,      \* runMigrations: position of the for-of loop
  applied,      \* the migration files whose SQL the database ran, in order
  exitCode,     \* the status the process exited with: none or one
  caught,       \* runMigrations: the file at which the caught error was thrown: none or one
  password_reset_code, \* column of users: per user, none or one reset code
  sent,         \* the password reset mails sent: user and code
  user_roles,   \* committed table user_roles: user and role
  gpc,          \* per admin request: the middleware it is in
  greq,         \* per admin request: the token of the Authorization header or cookie
  gres,         \* per admin request: the response sent
  passedAt,     \* per admin request: adminOps when requireAdmin called next()
  gateOps,      \* admin requests received so far
  vpc,          \* per requester of GET /orders...: the store call the handler awaits
  vreq,         \* per requester: the route and req.params.orderId
  vrows,        \* per requester: the rows of the first SELECT
  vres,         \* per requester: the response sent
  views         \* GET requests received so far

orderVars == <<pc, req, idx, client, product, err, res, nextCalls, acquires,
               releases, escaped, faults, tx>>
adminVars == <<apc, areq, current, adminOps>>

fnVars == <<fpc, fargs, v_current_stock, fret, calls>>

authVars == <<users, refresh_tokens, sec, tokens, issued, holders, spc, sreq, sres,
              authOps, refreshToken>>

migVars == <<mpc, migrationsDir, migrationFiles, fileIdx, applied, exitCode, caught>>

\* the state outside the order and admin routes
resetVars == <<password_reset_code, sent>>

gateVars == <<user_roles, gpc, greq, gres, passedAt, gateOps>>

viewVars == <<vpc, vreq, vrows, vres, views>>

\* the state of the routes added last
extraVars == <<resetVars, gateVars, viewVars>>

otherVars == <<fnVars, authVars, migVars, extraVars>>

vars == <<products, orders, order_items, lock, tx, pc, req, idx, client,
          product, err, res, nextCalls, acquires, releases, escaped, faults,
          stock0, apc, areq, current, adminOps, otherVars>>

\* ------------------------------------------------------------- conversions
\* a value stored in a DECIMAL(10,2) column: rounded to two decimals
Numeric2(m) == ((m + 5) \div 10) * 10

\* item.product_name || 'Product'
ProductNameOr(name) == IF name = Undefined \/ name = "" THEN "Product" ELSE name

\* item.size || null
SizeOrNull(size) == IF size = Undefined \/ size = "" THEN "null" ELSE size

\* --------------------------------------------------------------- the store
NoTx == [state |-> "none", products |-> <<>>, orders |-> {}, items |-> {}]

\* mutant: a transaction reads the committed rows, not its own writes
Visible_Committed(r) == products

\* the row of product p as the transaction of r sees it
Visible(r) == [p \in (DOMAIN products) \cup (DOMAIN tx[r].products) |->
                 IF p \in DOMAIN tx[r].products THEN tx[r].products[p]
                 ELSE products[p]]

\* mutant: a SELECT without FOR UPDATE does not wait
LockFree_NoWait(p, r) == TRUE

\* SELECT ... FOR UPDATE / UPDATE on row p by r must wait while another
\* transaction holds the row lock
LockFree(p, r) == lock[p] \in {NoLock, r}

\* the locks of r are released when its transaction ends
Unlock(r) == [p \in ProductIds |-> IF lock[p] = r THEN NoLock ELSE lock[p]]

\* mutant: in_stock is computed from the stock before the decrement
DecrementRow_StaleFlag(row, quantity) ==
  [row EXCEPT !.stock_quantity = row.stock_quantity - quantity,
              !.in_stock = row.stock_quantity > 0]

\* mutant: every line takes one unit from the stock
DecrementRow_ByOne(row, quantity) ==
  [row EXCEPT !.stock_quantity = row.stock_quantity - 1,
              !.in_stock = (row.stock_quantity - 1) > 0]

\* SET stock_quantity = stock_quantity - $1, in_stock = (stock_quantity - $1) > 0
DecrementRow(row, quantity) ==
  [row EXCEPT !.stock_quantity = row.stock_quantity - quantity,
              !.in_stock = (row.stock_quantity - quantity) > 0]

\* mutant: the stock check refuses a quantity equal to the stock
Insufficient_OrEqual(row, quantity) == row.stock_quantity <= quantity

\* if (product.stock_quantity < item.quantity)
Insufficient(row, quantity) == row.stock_quantity < quantity

\* mutant: the stock writes of the transaction are lost at COMMIT
CommitProducts_Lost(r) == products

\* COMMIT: the writes of the transaction become the committed rows
CommitProducts(r) == [p \in DOMAIN products |->
                        IF p \in DOMAIN tx[r].products THEN tx[r].products[p]
                        ELSE products[p]]
\* mutant: the order row is lost at COMMIT
CommitOrders_Lost(r) == orders

CommitOrders(r) == orders \cup tx[r].orders
CommitItems(r) == order_items \cup tx[r].items

\* ------------------------------------------------------------ errorHandler
StoreError(code) == [name |-> "error", code |-> code, status |-> 0,
                     tokenInMessage |-> FALSE]

errorHandler(e) ==
  IF e.name = "ValidationError" \/ e.name = "BadRequestError"
    THEN [status |-> 400, error |-> <<"message">>, data |-> {}]
  ELSE IF e.name = "UnauthorizedError" \/ e.tokenInMessage
    THEN [status |-> 401, error |-> <<"message">>, data |-> {}]
  ELSE IF e.code = "23505"
    THEN [status |-> 409, error |-> <<"A record with this information already exists">>,
          data |-> {}]
  ELSE IF e.code = "23503"
    THEN [status |-> 400, error |-> <<"Invalid reference to related record">>, data |-> {}]
  ELSE [status |-> IF e.status # 0 THEN e.status ELSE 500,
        error |-> <<"Internal server error">>, data |-> {}]

\* -------------------------------------------------------------- validation
\* the uuid strings of the model are the product ids
isUUID(s) == s \in ProductIds

\* mutant: the chain lacks the validator of items.*.quantity
ValidationError_NoQuantity(b) ==
  IF "items" \in b.missing \/ Len(b.items) < 1
    THEN "At least one order item is required"
  ELSE IF \E i \in 1..Len(b.items) : ~isUUID(b.items[i].productId)
    THEN "Valid productId is required"
  ELSE IF \E i \in 1..Len(b.items) : b.items[i].price < 0
    THEN "Price must be a valid number"
  ELSE IF "total" \in b.missing \/ b.total < 0
    THEN "Total must be a valid number"
  ELSE IF b.shippingAddress = Undefined THEN "Shipping address is required"
  ELSE ""

\* the validator chain of POST /orders; validate() answers with the first message
ValidationError(b) ==
  IF "items" \in b.missing \/ Len(b.items) < 1
    THEN "At least one order item is required"
  ELSE IF \E i \in 1..Len(b.items) : ~isUUID(b.items[i].productId)
    THEN "Valid productId is required"
  ELSE IF \E i \in 1..Len(b.items) : b.items[i].quantity < 1
    THEN "Quantity must be at least 1"
  ELSE IF \E i \in 1..Len(b.items) : b.items[i].price < 0
    THEN "Price must be a valid number"
  ELSE IF "total" \in b.missing \/ b.total < 0
    THEN "Total must be a valid number"
  ELSE IF b.shippingAddress = Undefined THEN "Shipping address is required"
  ELSE ""

\* ------------------------------------------------------------------ inputs
SeqsUpTo(S, n) == UNION {[1..k -> S] : k \in 0..n}

LeanItems == [productId : ProductIds, quantity : 1..MaxQty, price : {19990},
              size : {Undefined}, product_name : {Undefined}]

\* missing: the fields of the body the client left out
LeanBodies == [items : SeqsUpTo(LeanItems, MaxItems), total : {19990},
               shippingAddress : {"addr"}, missing : {{}}]

\* the optional fields of a line item in the three shapes a client sends
RichAttrs == {[price |-> 19990, size |-> Undefined, product_name |-> Undefined],
              [price |-> 19995, size |-> "42", product_name |-> "Runner"],
              [price |-> 0, size |-> "", product_name |-> ""]}

RichItems == {[productId |-> p, quantity |-> q, price |-> a.price, size |-> a.size,
               product_name |-> a.product_name] :
                p \in ProductIds, q \in 1..MaxQty, a \in RichAttrs}

LeanItem(p, q) == [productId |-> p, quantity |-> q, price |-> 19990,
                   size |-> Undefined, product_name |-> Undefined]

\* bodies the validator chain rejects
InvalidBodies ==
  {[items |-> <<>>, total |-> 19990, shippingAddress |-> "addr", missing |-> {}],
   [items |-> <<>>, total |-> 19990, shippingAddress |-> "addr",
    missing |-> {"items"}],
   [items |-> <<LeanItem("not-a-uuid", 1)>>, total |-> 19990,
    shippingAddress |-> "addr", missing |-> {}],
   [items |-> <<LeanItem("p1", 0)>>, total |-> 19990, shippingAddress |-> "addr",
    missing |-> {}],
   [items |-> <<[LeanItem("p1", 1) EXCEPT !.price = -10]>>, total |-> 19990,
    shippingAddress |-> "addr", missing |-> {}],
   [items |-> <<LeanItem("p1", 1)>>, total |-> -10, shippingAddress |-> "addr",
    missing |-> {}],
   [items |-> <<LeanItem("p1", 1)>>, total |-> 0, shippingAddress |-> "addr",
    missing |-> {"total"}],
   [items |-> <<LeanItem("p1", 1)>>, total |-> 19990, shippingAddress |-> Undefined,
    missing |-> {"shippingAddress"}]}

RichBodies ==
  [items : SeqsUpTo(RichItems, MaxItems) \ {<<>>}, total : {0, 39985},
   shippingAddress : {"addr"}, missing : {{}}] \cup InvalidBodies

OneItemBodies == {b \in LeanBodies : Len(b.items) = 1}

EmptyBody == [items |-> <<>>, total |-> 0, shippingAddress |-> Undefined,
              missing |-> {}]
NoProduct == [id |-> "", name |-> "", stock_quantity |-> 0]

ProductRow(p, q) == [name |-> CatalogName(p), price |-> CatalogPrice(p),
                     stock_quantity |-> q, in_stock |-> q > 0]

\* a products table: any subset of the ids, each with a stock in 0..MaxStock
Catalogs == UNION {[S -> 0..MaxStock] : S \in SUBSET ProductIds}

\* the empty products table
NoCatalog == {c \in Catalogs : DOMAIN c = {}}

\* the tables in which p1 exists and every product that exists is in stock
FaultCatalogs == {c \in Catalogs : "p1" \in DOMAIN c /\ \A p \in DOMAIN c : c[p] >= 1}

\* an optional field of a request body: {} when absent, {v} when given
Given(field) == CHOOSE v \in field : TRUE

NoCurrent == [name |-> "", price |-> 0, stock_quantity |-> 0, in_stock |-> FALSE]

NoReq == [op |-> "none", email |-> "u1", password |-> "", code |-> 0, token |-> <<>>]
NoRes == [status |-> 0, error |-> "", accessToken |-> {}, refreshToken |-> <<>>]

NoCall == [fn |-> "none", p_product_id |-> "p1", p_quantity |-> 0]

NoPatch == [productId |-> "p1",
            body |-> [name |-> {}, price |-> {}, stock_quantity |-> {}]]

\* -------------------------------------------------------------------- Init
\* no token in the request; no response sent
NoToken == [kind |-> "none", userId |-> ""]
NoGateRes == [status |-> 0, error |-> "", products |-> {}]

\* no GET request; no response sent
NoView == [op |-> "none", orderId |-> ""]
NoViewRes == [status |-> 0, orders |-> {}]

\* the state after construction, but for the users table
InitBase(C) ==
  /\ \E c \in C :
       /\ products = [p \in DOMAIN c |-> ProductRow(p, c[p])]
       /\ stock0 = [p \in DOMAIN c |-> ProductRow(p, c[p])]
  /\ apc = [a \in Admins |-> "idle"]
  /\ areq = [a \in Admins |-> NoPatch]
  /\ current = [a \in Admins |-> NoCurrent]
  /\ adminOps = 0
  /\ orders = {}
  /\ order_items = {}
  /\ lock = [p \in ProductIds |-> NoLock]
  /\ tx = [r \in Reqs |-> NoTx]
  /\ pc = [r \in Reqs |-> "idle"]
  /\ req = [r \in Reqs |-> EmptyBody]
  /\ idx = [r \in Reqs |-> 0]
  /\ client = [r \in Reqs |-> FALSE]
  /\ product = [r \in Reqs |-> NoProduct]
  /\ err = [r \in Reqs |-> ""]
  /\ res = [r \in Reqs |-> <<>>]
  /\ nextCalls = [r \in Reqs |-> 0]
  /\ acquires = [r \in Reqs |-> 0]
  /\ releases = [r \in Reqs |-> 0]
  /\ escaped = [r \in Reqs |-> FALSE]
  /\ faults = 0
  /\ fpc = [c \in Callers |-> "idle"]
  /\ fargs = [c \in Callers |-> NoCall]
  /\ v_current_stock = [c \in Callers |-> {}]
  /\ fret = [c \in Callers |-> <<>>]
  /\ calls = 0
  /\ refresh_tokens = {}
  /\ sec = 0
  /\ issued = {}
  /\ holders = {}
  /\ spc = [s \in Sessions |-> "idle"]
  /\ sreq = [s \in Sessions |-> NoReq]
  /\ sres = [s \in Sessions |-> NoRes]
  /\ authOps = 0
  /\ refreshToken = [s \in Sessions |-> <<>>]
  /\ password_reset_code = [u \in Users |-> {}]
  /\ sent = {}
  /\ user_roles = {<<"u1", "admin">>}
  /\ gpc = [a \in Admins |-> "idle"]
  /\ greq = [a \in Admins |-> NoToken]
  /\ gres = [a \in Admins |-> NoGateRes]
  /\ passedAt = [a \in Admins |-> 0]
  /\ gateOps = 0
  /\ vpc = [v \in Users |-> "idle"]
  /\ vreq = [v \in Users |-> NoView]
  /\ vrows = [v \in Users |-> {}]
  /\ vres = [v \in Users |-> NoViewRes]
  /\ views = 0
  /\ mpc = "start"
  /\ migrationsDir = <<>>
  /\ migrationFiles = <<>>
  /\ fileIdx = 0
  /\ applied = <<>>
  /\ exitCode = {}
  /\ caught = {}

\* nobody has registered
InitWith(C) ==
  /\ InitBase(C)
  /\ users = <<>>
  /\ tokens = 0

Init == InitWith(Catalogs)

\* ----------------------------------------------------- POST /orders, steps
\* mutant: the client is released on the success path only
Release_Skipped(r) ==
  /\ client' = [client EXCEPT ![r] = IF pc[r] = "commit" THEN FALSE ELSE @]
  /\ releases' = [releases EXCEPT ![r] = IF pc[r] = "commit" THEN @ + 1 ELSE @]

\* finally { if (client) client.release(); }
Release(r) ==
  /\ client' = [client EXCEPT ![r] = FALSE]
  /\ releases' = [releases EXCEPT ![r] = IF client[r] THEN @ + 1 ELSE @]

\* mutant: the loop walks the items from the last to the first
Item_Reversed(r) == req[r].items[Len(req[r].items) + 1 - idx[r]]

\* for (const item of items): the item of the current iteration
Item(r) == req[r].items[idx[r]]

\* the request arrives; validate(req, res) runs before any store call
Receive(r, b) ==
  /\ pc[r] = "idle"
  /\ req' = [req EXCEPT ![r] = b]
  /\ IF ValidationError(b) # ""
       \* if (!validate(req, res)) return; and the finally block
       THEN /\ res' = [res EXCEPT ![r] = Append(@, [status |-> 400,
                          error |-> <<ValidationError(b)>>, data |-> {}])]
            /\ pc' = [pc EXCEPT ![r] = "done"]
            /\ Release(r)
       ELSE /\ res' = res
            /\ pc' = [pc EXCEPT ![r] = "getClient"]
            /\ UNCHANGED <<client, releases>>
  /\ UNCHANGED <<products, orders, order_items, lock, tx, idx, product,
                 err, nextCalls, acquires, escaped, faults, stock0, otherVars, adminVars>>

\* client = await getClient()
GetClient(r) ==
  /\ pc[r] = "getClient"
  /\ client' = [client EXCEPT ![r] = TRUE]
  /\ acquires' = [acquires EXCEPT ![r] = @ + 1]
  /\ pc' = [pc EXCEPT ![r] = "begin"]
  /\ UNCHANGED <<products, orders, order_items, lock, tx, req, idx, product,
                 err, res, nextCalls, releases, escaped, faults, stock0, otherVars, adminVars>>

\* await client.query('BEGIN')
Begin(r) ==
  /\ pc[r] = "begin"
  /\ tx' = [tx EXCEPT ![r] = [NoTx EXCEPT !.state = "open"]]
  /\ idx' = [idx EXCEPT ![r] = 1]
  /\ pc' = [pc EXCEPT ![r] = "select"]
  /\ UNCHANGED <<products, orders, order_items, lock, req, client, product,
                 err, res, nextCalls, acquires, releases, escaped, faults, stock0, otherVars, adminVars>>

\* SELECT id, name, stock_quantity FROM products WHERE id = $1 FOR UPDATE,
\* and the two checks on its result
SelectForUpdate(r) ==
  /\ pc[r] = "select"
  /\ LET p == Item(r).productId IN
       IF p \notin DOMAIN Visible(r)
         THEN /\ pc' = [pc EXCEPT ![r] = "rollbackNotFound"]
              /\ UNCHANGED <<lock, product>>
         ELSE /\ LockFree(p, r)
              /\ lock' = [lock EXCEPT ![p] = r]
              /\ product' = [product EXCEPT ![r] =
                               [id |-> p, name |-> Visible(r)[p].name,
                                stock_quantity |-> Visible(r)[p].stock_quantity]]
              /\ pc' = [pc EXCEPT ![r] =
                          IF Insufficient(Visible(r)[p], Item(r).quantity)
                            THEN "rollbackInsufficient" ELSE "update"]
  /\ UNCHANGED <<products, orders, order_items, tx, req, idx, client, err, res,
                 nextCalls, acquires, releases, escaped, faults, stock0, otherVars, adminVars>>

\* UPDATE products SET stock_quantity = ..., in_stock = ... WHERE id = $2
UpdateStock(r) ==
  /\ pc[r] = "update"
  /\ LET p == Item(r).productId IN
       /\ LockFree(p, r)
       /\ tx' = [tx EXCEPT ![r].products =
                   [q \in (DOMAIN @) \cup {p} |->
                      IF q = p THEN DecrementRow(Visible(r)[p], Item(r).quantity)
                      ELSE @[q]]]
  /\ IF idx[r] < Len(req[r].items)
       THEN /\ idx' = [idx EXCEPT ![r] = @ + 1]
            /\ pc' = [pc EXCEPT ![r] = "select"]
       ELSE /\ idx' = idx
            /\ pc' = [pc EXCEPT ![r] = "insertOrder"]
  /\ UNCHANGED <<products, orders, order_items, lock, req, client, product, err,
                 res, nextCalls, acquires, releases, escaped, faults, stock0, otherVars, adminVars>>

RECURSIVE LineTotal(_)
LineTotal(items) ==
  IF items = <<>> THEN 0
  ELSE Head(items).price * Head(items).quantity + LineTotal(Tail(items))

\* mutant: the total is recomputed from the line items
OrderRow_Recomputed(r) ==
  [id |-> r, user_id |-> SessionUser(r),
   total |-> Numeric2(LineTotal(req[r].items)), status |-> "pending",
   shipping_address |-> req[r].shippingAddress]

\* the row of INSERT INTO orders ... VALUES ($1, $2, 'pending', $3::jsonb)
OrderRow(r) == [id |-> r, user_id |-> SessionUser(r),
                total |-> Numeric2(req[r].total), status |-> "pending",
                shipping_address |-> req[r].shippingAddress]

InsertOrder(r) ==
  /\ pc[r] = "insertOrder"
  /\ tx' = [tx EXCEPT ![r].orders = @ \cup {OrderRow(r)}]
  /\ idx' = [idx EXCEPT ![r] = 1]
  /\ pc' = [pc EXCEPT ![r] = "insertItem"]
  /\ UNCHANGED <<products, orders, order_items, lock, req, client, product, err,
                 res, nextCalls, acquires, releases, escaped, faults, stock0, otherVars, adminVars>>

\* the row of INSERT INTO order_items for line i of the request of r
OrderItemRow(r, i) ==
  [id |-> <<r, i>>, order_id |-> r,
   product_id |-> req[r].items[i].productId,
   product_name |-> ProductNameOr(req[r].items[i].product_name),
   quantity |-> req[r].items[i].quantity,
   size |-> SizeOrNull(req[r].items[i].size),
   price |-> Numeric2(req[r].items[i].price)]

InsertItem(r) ==
  /\ pc[r] = "insertItem"
  /\ tx' = [tx EXCEPT ![r].items = @ \cup {OrderItemRow(r, idx[r])}]
  /\ IF idx[r] < Len(req[r].items)
       THEN /\ idx' = [idx EXCEPT ![r] = @ + 1]
            /\ pc' = pc
       ELSE /\ idx' = idx
            /\ pc' = [pc EXCEPT ![r] = "commit"]
  /\ UNCHANGED <<products, orders, order_items, lock, req, client, product, err,
                 res, nextCalls, acquires, releases, escaped, faults, stock0, otherVars, adminVars>>

\* await client.query('COMMIT'); res.status(201).json(...); finally release
Commit(r) ==
  /\ pc[r] = "commit"
  /\ products' = CommitProducts(r)
  /\ orders' = CommitOrders(r)
  /\ order_items' = CommitItems(r)
  /\ lock' = Unlock(r)
  /\ tx' = [tx EXCEPT ![r] = NoTx]
  /\ res' = [res EXCEPT ![r] = Append(@, [status |-> 201, error |-> <<>>,
                                           data |-> tx[r].orders])]
  /\ Release(r)
  /\ pc' = [pc EXCEPT ![r] = "done"]
  /\ idx' = [idx EXCEPT ![r] = 0]
  /\ product' = [product EXCEPT ![r] = NoProduct]
  /\ UNCHANGED <<req, err, nextCalls, acquires, escaped, faults, stock0, otherVars, adminVars>>

\* mutant: the message names the product by the client-supplied product_name
BusinessError_ClientName(r) ==
  IF pc[r] = "rollbackNotFound" THEN <<"One or more products no longer exist">>
  ELSE <<"Insufficient stock for", Item(r).product_name>>

\* the message of the business-rule answer the handler is about to send
BusinessError(r) ==
  IF pc[r] = "rollbackNotFound" THEN <<"One or more products no longer exist">>
  ELSE <<"Insufficient stock for", product[r].name>>

\* mutant: the business-rule branch answers 400 and ends the transaction
\* with its stock writes kept
Rollback400_KeepsWrites(r) ==
  /\ pc[r] \in {"rollbackNotFound", "rollbackInsufficient"}
  /\ products' = CommitProducts(r)
  /\ lock' = Unlock(r)
  /\ tx' = [tx EXCEPT ![r] = NoTx]
  /\ res' = [res EXCEPT ![r] = Append(@, [status |-> 400,
                                           error |-> BusinessError(r), data |-> {}])]
  /\ Release(r)
  /\ pc' = [pc EXCEPT ![r] = "done"]
  /\ idx' = [idx EXCEPT ![r] = 0]
  /\ product' = [product EXCEPT ![r] = NoProduct]
  /\ UNCHANGED <<orders, order_items, req, err, nextCalls, acquires,
                 escaped, faults, stock0, otherVars, adminVars>>

\* await client.query('ROLLBACK'); return res.status(400).json(...); finally release
Rollback400(r) ==
  /\ pc[r] \in {"rollbackNotFound", "rollbackInsufficient"}
  /\ lock' = Unlock(r)
  /\ tx' = [tx EXCEPT ![r] = NoTx]
  /\ res' = [res EXCEPT ![r] = Append(@, [status |-> 400,
                                           error |-> BusinessError(r), data |-> {}])]
  /\ Release(r)
  /\ pc' = [pc EXCEPT ![r] = "done"]
  /\ idx' = [idx EXCEPT ![r] = 0]
  /\ product' = [product EXCEPT ![r] = NoProduct]
  /\ UNCHANGED <<products, orders, order_items, req, err, nextCalls, acquires,
                 escaped, faults, stock0, otherVars, adminVars>>

\* mutant: the catch block forwards the error without a ROLLBACK
CatchRollback_NoRollback(r) ==
  /\ pc[r] = "catch"
  /\ nextCalls' = [nextCalls EXCEPT ![r] = @ + 1]
  /\ res' = [res EXCEPT ![r] = Append(@, errorHandler(StoreError(err[r])))]
  /\ Release(r)
  /\ pc' = [pc EXCEPT ![r] = "done"]
  /\ err' = [err EXCEPT ![r] = ""]
  /\ UNCHANGED <<products, orders, order_items, lock, tx, req, idx, product,
                 acquires, escaped, faults, stock0, otherVars, adminVars>>

\* catch: if (client) await client.query('ROLLBACK'); next(error); finally release
CatchRollback(r) ==
  /\ pc[r] = "catch"
  /\ lock' = Unlock(r)
  /\ tx' = [tx EXCEPT ![r] = NoTx]
  /\ nextCalls' = [nextCalls EXCEPT ![r] = @ + 1]
  /\ res' = [res EXCEPT ![r] = Append(@, errorHandler(StoreError(err[r])))]
  /\ Release(r)
  /\ pc' = [pc EXCEPT ![r] = "done"]
  /\ err' = [err EXCEPT ![r] = ""]
  /\ UNCHANGED <<products, orders, order_items, req, idx, product, acquires,
                 escaped, faults, stock0, otherVars, adminVars>>

\* the store calls of the try block made with the client
ClientCalls == {"begin", "select", "update", "insertOrder", "insertItem",
                "commit", "rollbackNotFound", "rollbackInsufficient"}

\* the store call r awaits raises an error with the given code
StoreFault(r, code) ==
  /\ faults' = faults + 1
  /\ pc[r] \in ClientCalls \cup {"getClient", "catch"}
  /\ code \in MayRaise(pc[r])
  /\ IF pc[r] = "getClient"
       \* client is undefined: no ROLLBACK, next(error), nothing to release
       THEN /\ nextCalls' = [nextCalls EXCEPT ![r] = @ + 1]
            /\ res' = [res EXCEPT ![r] = Append(@, errorHandler(StoreError(code)))]
            /\ pc' = [pc EXCEPT ![r] = "done"]
            /\ Release(r)
            /\ UNCHANGED <<lock, tx, escaped, err, idx, product>>
     ELSE IF pc[r] \in ClientCalls
       \* a call of the try block throws: the store aborts the transaction (its
       \* writes are void, its locks stay until ROLLBACK) and catch runs
       THEN /\ err' = [err EXCEPT ![r] = code]
            /\ tx' = [tx EXCEPT ![r] =
                        IF @.state = "open" THEN [NoTx EXCEPT !.state = "aborted"]
                        ELSE @]
            /\ idx' = [idx EXCEPT ![r] = 0]
            /\ product' = [product EXCEPT ![r] = NoProduct]
            /\ pc' = [pc EXCEPT ![r] = "catch"]
            /\ UNCHANGED <<lock, client, res, nextCalls, releases, escaped>>
     \* the ROLLBACK of the catch block throws: next(error) is skipped, finally
     \* releases the client and the handler's promise rejects; the framework
     \* either drops the rejection or forwards it to the error handler
     ELSE /\ lock' = Unlock(r)
          /\ tx' = [tx EXCEPT ![r] = NoTx]
          /\ Release(r)
          /\ escaped' = [escaped EXCEPT ![r] = TRUE]
          /\ err' = [err EXCEPT ![r] = ""]
          /\ \E forwarded \in BOOLEAN :
               res' = [res EXCEPT ![r] =
                         IF forwarded THEN Append(@, errorHandler(StoreError(code)))
                         ELSE @]
          /\ pc' = [pc EXCEPT ![r] = "done"]
          /\ UNCHANGED <<nextCalls, idx, product>>
  /\ UNCHANGED <<products, orders, order_items, req, acquires, stock0, otherVars, adminVars>>

\* r awaits the SELECT ... FOR UPDATE of a row that o has locked
WaitsFor(r, o) ==
  /\ pc[r] = "select"
  /\ Item(r).productId \in DOMAIN Visible(r)
  /\ lock[Item(r).productId] = o

\* the store finds r and another request waiting for each other's row lock
\* and rejects the SELECT ... FOR UPDATE of r with 40P01
DeadlockAbort(r) ==
  /\ \E o \in Reqs \ {r} : WaitsFor(r, o) /\ WaitsFor(o, r)
  /\ StoreFault(r, "40P01")

\* ------------------------------------------------- admin product routes
CreateBodies == [name : {"Runner"}, price : {24995},
                 stock_quantity : {{}} \cup {{n} : n \in 0..MaxStock}]

PatchBodies == [name : {{}}, price : {{}},
                stock_quantity : {{}} \cup {{n} : n \in 0..MaxStock}]
                 \cup {[name |-> {"Runner"}, price |-> {24995}, stock_quantity |-> {}]}

\* POST /products: stockQuantity = Number(req.body.stock_quantity ?? 0) and
\* the row inserted with in_stock = stockQuantity > 0
NewProductRow(b) ==
  LET stockQuantity == IF b.stock_quantity = {} THEN 0 ELSE Given(b.stock_quantity)
  IN [name |-> b.name, price |-> Numeric2(b.price),
      stock_quantity |-> stockQuantity, in_stock |-> stockQuantity > 0]

\* PATCH /products/:productId: every column is req.body.x ?? current.x, and
\* in_stock = Number(stockQuantity) > 0
PatchedRow(cur, b) ==
  LET stockQuantity == IF b.stock_quantity = {} THEN cur.stock_quantity
                       ELSE Given(b.stock_quantity)
  IN [name |-> IF b.name = {} THEN cur.name ELSE Given(b.name),
      price |-> IF b.price = {} THEN cur.price ELSE Numeric2(Given(b.price)),
      stock_quantity |-> stockQuantity, in_stock |-> stockQuantity > 0]

\* POST /products; the new row gets a fresh id (gen_random_uuid)
AdminCreateProduct(a, b) ==
  /\ apc[a] = "idle"
  /\ adminOps < MaxAdminOps
  /\ \E p \in ProductIds \ DOMAIN products :
       products' = [q \in (DOMAIN products) \cup {p} |->
                      IF q = p THEN NewProductRow(b) ELSE products[q]]
  /\ adminOps' = adminOps + 1
  /\ UNCHANGED <<orders, order_items, lock, orderVars, stock0, otherVars, apc, areq, current>>

\* PATCH /products/:productId, first store call: SELECT * FROM products WHERE id = $1
AdminPatchSelect(a, p, b) ==
  /\ apc[a] = "idle"
  /\ adminOps < MaxAdminOps
  /\ IF p \in DOMAIN products
       THEN /\ areq' = [areq EXCEPT ![a] = [productId |-> p, body |-> b]]
            /\ current' = [current EXCEPT ![a] = products[p]]
            /\ apc' = [apc EXCEPT ![a] = "patchUpdate"]
            /\ adminOps' = adminOps
       \* 404 Product not found
       ELSE /\ adminOps' = adminOps + 1
            /\ UNCHANGED <<areq, current, apc>>
  /\ UNCHANGED <<products, orders, order_items, lock, orderVars, stock0, otherVars>>

\* PATCH /products/:productId, second store call: UPDATE products SET ... WHERE id = $12
AdminPatchUpdate(a) ==
  /\ apc[a] = "patchUpdate"
  /\ LET p == areq[a].productId IN
       IF p \in DOMAIN products
         THEN /\ lock[p] = NoLock
              /\ products' = [products EXCEPT
                                ![p] = PatchedRow(current[a], areq[a].body)]
         ELSE products' = products
  /\ apc' = [apc EXCEPT ![a] = "idle"]
  /\ areq' = [areq EXCEPT ![a] = NoPatch]
  /\ current' = [current EXCEPT ![a] = NoCurrent]
  /\ adminOps' = adminOps + 1
  /\ UNCHANGED <<orders, order_items, lock, orderVars, stock0, otherVars>>

\* mutant: the reference of order_items to products deletes the items
SetNull_Cascade(items, p) == {it \in items : it.product_id # p}

\* order_items.product_id REFERENCES products(id) ON DELETE SET NULL
SetNull(items, p) ==
  {IF it.product_id = p THEN [it EXCEPT !.product_id = "null"] ELSE it : it \in items}

\* DELETE /products/:productId: DELETE FROM products WHERE id = $1 RETURNING id.
\* The statement waits for the row lock of a transaction that holds the row
AdminDeleteProduct(a, p) ==
  /\ apc[a] = "idle"
  /\ adminOps < MaxAdminOps
  /\ IF p \in DOMAIN products
       THEN /\ lock[p] = NoLock
            /\ products' = [q \in (DOMAIN products) \ {p} |-> products[q]]
            /\ order_items' = SetNull(order_items, p)
       \* 404 Product not found
       ELSE UNCHANGED <<products, order_items>>
  /\ adminOps' = adminOps + 1
  /\ UNCHANGED <<orders, lock, orderVars, stock0, otherVars, apc, areq, current>>

\* ------------------------------------------------- admin order status route
Statuses == {"pending", "processing", "shipped", "completed", "cancelled"}

\* what an admin can send as req.body.status
StatusInputs == Statuses \cup {"refunded", Undefined}

\* mutant: the status is not validated
ValidStatus_Any(s) == TRUE

\* body('status').isIn([...])
ValidStatus(s) == s \in Statuses

\* mutant: cancelling an order returns its quantities to the stock
AdminUpdateOrderStatus_Restocks(a, o, s) ==
  /\ apc[a] = "idle"
  /\ adminOps < MaxAdminOps
  /\ orders' = IF ValidStatus(s)
                 THEN {IF row.id = o THEN [row EXCEPT !.status = s] ELSE row :
                         row \in orders}
                 ELSE orders
  /\ products' = IF s = "cancelled" /\ \E row \in orders : row.id = o
                   THEN [p \in DOMAIN products |->
                           [products[p] EXCEPT !.stock_quantity = @ + 1]]
                   ELSE products
  /\ adminOps' = adminOps + 1
  /\ UNCHANGED <<order_items, lock, orderVars, stock0, otherVars, apc, areq, current>>

\* PATCH /orders/:orderId/status: UPDATE orders SET status = $1, updated_at =
\* NOW() WHERE id = $2; 400 for an invalid status, 404 when no row matches
AdminUpdateOrderStatus(a, o, s) ==
  /\ apc[a] = "idle"
  /\ adminOps < MaxAdminOps
  /\ orders' = IF ValidStatus(s)
                 THEN {IF row.id = o THEN [row EXCEPT !.status = s] ELSE row :
                         row \in orders}
                 ELSE orders
  /\ adminOps' = adminOps + 1
  /\ UNCHANGED <<products, order_items, lock, orderVars, stock0, otherVars, apc, areq, current>>

\* ---------------------------------------- decrement_stock, restore_stock
\* the quantities a caller passes; the parameter is an integer of either sign
FnQuantities == -1..MaxQty

shopVars == <<orders, order_items, orderVars, stock0, adminVars, authVars, migVars,
              extraVars>>

\* a caller invokes decrement_stock or restore_stock as one statement
CallFn(c, fn, p, q) ==
  /\ fpc[c] = "idle"
  /\ calls < MaxCalls
  /\ calls' = calls + 1
  /\ fargs' = [fargs EXCEPT ![c] = [fn |-> fn, p_product_id |-> p, p_quantity |-> q]]
  /\ fpc' = [fpc EXCEPT ![c] = fn]
  /\ UNCHANGED <<products, lock, v_current_stock, fret, shopVars>>

\* mutant: the guard tests only whether the row was found
StockShort_NullOnly(v, q) == v = {}

\* IF v_current_stock IS NULL OR v_current_stock < p_quantity
StockShort(v, q) == v = {} \/ Given(v) < q

\* decrement_stock: SELECT stock_quantity INTO v_current_stock ... FOR UPDATE,
\* then the IF with RETURN false.  The SELECT waits for the row lock; when
\* no row matches, v_current_stock stays NULL and no lock is taken
DecrementSelect(c) ==
  /\ fpc[c] = "decrement_stock"
  /\ LET p == fargs[c].p_product_id
         v == IF p \in DOMAIN products THEN {products[p].stock_quantity} ELSE {}
     IN /\ p \in DOMAIN products => LockFree(p, c)
        /\ IF StockShort(v, fargs[c].p_quantity)
             \* RETURN false; the statement ends and its lock is released
             THEN /\ fret' = [fret EXCEPT ![c] = Append(@, "false")]
                  /\ fpc' = [fpc EXCEPT ![c] = "idle"]
                  /\ UNCHANGED <<lock, v_current_stock>>
             ELSE /\ lock' = [lock EXCEPT ![p] = c]
                  /\ v_current_stock' = [v_current_stock EXCEPT ![c] = v]
                  /\ fpc' = [fpc EXCEPT ![c] = "update"]
                  /\ fret' = fret
  /\ UNCHANGED <<products, fargs, calls, shopVars>>

\* decrement_stock: UPDATE products SET stock_quantity = stock_quantity -
\* p_quantity, in_stock = (stock_quantity - p_quantity) > 0; RETURN true; the
\* statement ends, its write is committed and its lock released
DecrementUpdate(c) ==
  /\ fpc[c] = "update"
  /\ LET p == fargs[c].p_product_id IN
       products' = [products EXCEPT ![p] = DecrementRow(@, fargs[c].p_quantity)]
  /\ lock' = Unlock(c)
  /\ v_current_stock' = [v_current_stock EXCEPT ![c] = {}]
  /\ fret' = [fret EXCEPT ![c] = Append(@, "true")]
  /\ fpc' = [fpc EXCEPT ![c] = "idle"]
  /\ UNCHANGED <<fargs, calls, shopVars>>

\* mutant: the UPDATE adds the quantity and leaves in_stock as it was
RestoreRow_KeepsFlag(row, quantity) ==
  [row EXCEPT !.stock_quantity = @ + quantity]

\* restore_stock: SET stock_quantity = stock_quantity + p_quantity, in_stock = true
RestoreRow(row, quantity) ==
  [row EXCEPT !.stock_quantity = @ + quantity, !.in_stock = TRUE]

\* restore_stock: one UPDATE, which waits for the row lock and changes
\* nothing when no row matches; RETURNS void
RestoreStock(c) ==
  /\ fpc[c] = "restore_stock"
  /\ LET p == fargs[c].p_product_id IN
       IF p \in DOMAIN products
         THEN /\ lock[p] = NoLock
              /\ products' = [products EXCEPT ![p] = RestoreRow(@, fargs[c].p_quantity)]
         ELSE products' = products
  /\ fret' = [fret EXCEPT ![c] = Append(@, "void")]
  /\ fpc' = [fpc EXCEPT ![c] = "idle"]
  /\ UNCHANGED <<lock, fargs, v_current_stock, calls, shopVars>>

FnSteps ==
  \/ \E c \in Callers : DecrementSelect(c)
  \/ \E c \in Callers : DecrementUpdate(c)
  \/ \E c \in Callers : RestoreStock(c)

\* ------------------------------------------------------------ auth routes
storeVars == <<products, orders, order_items, lock, orderVars, stock0, adminVars, fnVars,
               migVars, extraVars>>

\* a response without tokens
Plain(status, error) == [NoRes EXCEPT !.status = status, !.error = error]

\* the handler of s answers and ends
Answer(s, r) ==
  /\ sres' = [sres EXCEPT ![s] = r]
  /\ spc' = [spc EXCEPT ![s] = "idle"]

\* a request of route op arrives at an idle handler
Arrive(s, op, email, password, code, token) ==
  /\ spc[s] = "idle"
  /\ authOps < MaxAuthOps
  /\ authOps' = authOps + 1
  /\ sreq' = [sreq EXCEPT ![s] = [op |-> op, email |-> email, password |-> password,
                                  code |-> code, token |-> token]]

\* createUser: INSERT INTO users (..., email_verified, verification_code, ...)
\* VALUES (..., false, $4, $5) with a fresh token that expires in 15 minutes
NewUser(password) ==
  [password |-> password, is_active |-> TRUE, email_verified |-> FALSE,
   verification_code |-> {tokens + 1}, code_expired |-> FALSE]

\* POST /register: 409 when the email exists, else createUser and 201 with
\* the user and no token
Register(s, email, password) ==
  /\ Arrive(s, "register", email, password, 0, <<>>)
  /\ IF email \in DOMAIN users
       THEN /\ Answer(s, Plain(409, "Email is already registered. Please log in instead."))
            /\ UNCHANGED <<users, tokens>>
       ELSE /\ tokens < MaxCodes
            /\ users' = [u \in (DOMAIN users) \cup {email} |->
                           IF u = email THEN NewUser(password) ELSE users[u]]
            /\ tokens' = tokens + 1
            /\ Answer(s, Plain(201, ""))
  /\ UNCHANGED <<refresh_tokens, sec, issued, holders, refreshToken, storeVars>>

\* UPDATE users SET email_verified = true, verification_code = NULL,
\* verification_code_expires_at = NULL
VerifiedRow(row) ==
  [row EXCEPT !.email_verified = TRUE, !.verification_code = {}, !.code_expired = FALSE]

\* verifyEmail(email, code): the error thrown, or "" when the code is accepted
VerifyEmailError(email, code) ==
  IF email \notin DOMAIN users THEN "User not found"
  ELSE IF users[email].email_verified THEN "Email is already verified"
  ELSE IF users[email].verification_code = {}
    THEN "No verification code found. Please request a new one."
  ELSE IF users[email].verification_code # {code} THEN "Invalid verification code"
  ELSE IF users[email].code_expired
    THEN "Verification code has expired. Please request a new one."
  ELSE ""

\* POST /verify-email: 400 for the errors the route recognises, the error
\* handler's 500 for the other one
VerifyEmail(s, email, code) ==
  /\ Arrive(s, "verify-email", email, "", code, <<>>)
  /\ LET e == VerifyEmailError(email, code) IN
       IF e = ""
         THEN /\ users' = [users EXCEPT ![email] = VerifiedRow(@)]
              /\ Answer(s, Plain(200, ""))
         ELSE /\ users' = users
              /\ Answer(s, Plain(IF e = "No verification code found. Please request a new one."
                                   THEN 500 ELSE 400, e))
  /\ UNCHANGED <<refresh_tokens, sec, tokens, issued, holders, refreshToken, storeVars>>

\* SELECT ... FROM users WHERE verification_code = $1
UsersWithCode(code) == {u \in DOMAIN users : users[u].verification_code = {code}}

\* GET /verify-email-link: verifyEmailByToken(token), then a redirect with
\* the success or the failure flag
VerifyEmailByToken(s, code) ==
  /\ Arrive(s, "verify-email-link", "u1", "", code, <<>>)
  /\ IF UsersWithCode(code) = {}
       THEN /\ users' = users
            /\ Answer(s, Plain(302, "Invalid or expired verification link"))
       ELSE LET u == CHOOSE u \in UsersWithCode(code) : TRUE IN
              IF users[u].email_verified
                THEN users' = users /\ Answer(s, Plain(302, ""))
              ELSE IF users[u].code_expired
                THEN /\ users' = users
                     /\ Answer(s, Plain(302, "Verification link has expired. Please request a new verification email."))
              ELSE /\ users' = [users EXCEPT ![u] = VerifiedRow(@)]
                   /\ Answer(s, Plain(302, ""))
  /\ UNCHANGED <<refresh_tokens, sec, tokens, issued, holders, refreshToken, storeVars>>

\* POST /resend-verification: resendVerificationCode(email) stores a fresh
\* token that expires in 15 minutes
ResendVerification(s, email) ==
  /\ Arrive(s, "resend-verification", email, "", 0, <<>>)
  /\ IF email \notin DOMAIN users
       THEN /\ Answer(s, Plain(400, "User not found"))
            /\ UNCHANGED <<users, tokens>>
     ELSE IF users[email].email_verified
       THEN /\ Answer(s, Plain(400, "Email is already verified"))
            /\ UNCHANGED <<users, tokens>>
     ELSE /\ tokens < MaxCodes
          /\ users' = [users EXCEPT ![email].verification_code = {tokens + 1},
                                    ![email].code_expired = FALSE]
          /\ tokens' = tokens + 1
          /\ Answer(s, Plain(200, ""))
  /\ UNCHANGED <<refresh_tokens, sec, issued, holders, refreshToken, storeVars>>

\* time passes verification_code_expires_at of a user's token
ExpireCode(u) ==
  /\ u \in DOMAIN users
  /\ users[u].verification_code # {}
  /\ ~users[u].code_expired
  /\ users' = [users EXCEPT ![u].code_expired = TRUE]
  /\ UNCHANGED <<refresh_tokens, sec, tokens, issued, holders, spc, sreq, sres, authOps,
                 refreshToken, storeVars>>

\* mutant: authenticateUser does not look at email_verified
LoginError_Unverified(email, password) ==
  IF email \notin DOMAIN users THEN "Invalid email or password"
  ELSE IF ~users[email].is_active THEN "Account is inactive. Please contact support."
  ELSE IF users[email].password # password THEN "Invalid email or password"
  ELSE ""

\* authenticateUser, up to the password check: the error thrown, or ""
LoginError(email, password) ==
  IF email \notin DOMAIN users THEN "Invalid email or password"
  ELSE IF ~users[email].is_active THEN "Account is inactive. Please contact support."
  ELSE IF ~users[email].email_verified THEN "Please verify your email before logging in."
  ELSE IF users[email].password # password THEN "Invalid email or password"
  ELSE ""

\* jwt.sign({ userId }, JWT_REFRESH_SECRET, { expiresIn }): the token is a
\* function of the user and of iat, the second of signing
generateRefreshToken(userId) == <<userId, sec>>

\* POST /login, first store call: SELECT ... FROM users WHERE email = $1 and
\* the checks on the row; every error of authenticateUser is a 401; without
\* an error the tokens are signed and the upsert is sent
LoginSelect(s, email, password) ==
  /\ Arrive(s, "login", email, password, 0, <<>>)
  /\ IF LoginError(email, password) # ""
       THEN /\ Answer(s, Plain(401, LoginError(email, password)))
            /\ refreshToken' = refreshToken
       ELSE /\ spc' = [spc EXCEPT ![s] = "loginUpsert"]
            /\ refreshToken' = [refreshToken EXCEPT ![s] = generateRefreshToken(email)]
            /\ sres' = sres
  /\ UNCHANGED <<users, refresh_tokens, sec, tokens, issued, holders, storeVars>>

\* mutant: a plain INSERT into a table without the primary key on user_id
Upsert_Insert(rows, userId, token) ==
  rows \cup {[user_id |-> userId, token |-> token, expired |-> FALSE]}

\* INSERT INTO refresh_tokens ... ON CONFLICT (user_id) DO UPDATE SET token =
\* $2, expires_at = NOW() + INTERVAL '7 days'
Upsert(rows, userId, token) ==
  {row \in rows : row.user_id # userId}
    \cup {[user_id |-> userId, token |-> token, expired |-> FALSE]}

\* POST /login, second store call: the signed refresh token is stored, and
\* both tokens are sent
LoginUpsert(s) ==
  /\ spc[s] = "loginUpsert"
  /\ LET u == sreq[s].email
         t == refreshToken[s]
     IN /\ refresh_tokens' = Upsert(refresh_tokens, u, t)
        /\ issued' = issued \cup {t}
        /\ holders' = holders \cup {u}
        /\ Answer(s, [status |-> 200, error |-> "", accessToken |-> {u},
                      refreshToken |-> t])
  /\ UNCHANGED <<users, sec, tokens, sreq, authOps, refreshToken, storeVars>>

\* mutant: logout clears the cookie and leaves the stored row
Logout_KeepsRow(s, u) ==
  /\ u \in holders
  /\ Arrive(s, "logout", u, "", 0, <<>>)
  /\ refresh_tokens' = refresh_tokens
  /\ Answer(s, Plain(200, ""))
  /\ UNCHANGED <<users, sec, tokens, issued, holders, refreshToken, storeVars>>

\* POST /logout of an authenticated user: DELETE FROM refresh_tokens WHERE user_id = $1
Logout(s, u) ==
  /\ u \in holders
  /\ Arrive(s, "logout", u, "", 0, <<>>)
  /\ refresh_tokens' = {row \in refresh_tokens : row.user_id # u}
  /\ Answer(s, Plain(200, ""))
  /\ UNCHANGED <<users, sec, tokens, issued, holders, refreshToken, storeVars>>

\* POST /refresh arrives with a refresh token in the cookie or the body
RefreshCall(s, token) ==
  /\ Arrive(s, "refresh", "u1", "", 0, token)
  /\ IF token = <<>>
       THEN Answer(s, Plain(401, "Refresh token is required"))
       ELSE /\ spc' = [spc EXCEPT ![s] = "refreshSelect"]
            /\ sres' = sres
  /\ UNCHANGED <<users, refresh_tokens, sec, tokens, issued, holders, refreshToken, storeVars>>

\* SELECT user_id, expires_at FROM refresh_tokens WHERE user_id = $1 AND token = $2
StoredRows(token) ==
  {row \in refresh_tokens : row.user_id = token[1] /\ row.token = token}

\* POST /refresh, first store call and the checks on its result
RefreshSelect(s) ==
  /\ spc[s] = "refreshSelect"
  /\ IF StoredRows(sreq[s].token) = {}
       THEN Answer(s, Plain(401, "Invalid refresh token"))
     ELSE IF \E row \in StoredRows(sreq[s].token) : row.expired
       THEN spc' = [spc EXCEPT ![s] = "refreshDeleteExpired"] /\ sres' = sres
     ELSE spc' = [spc EXCEPT ![s] = "refreshUser"] /\ sres' = sres
  /\ UNCHANGED <<users, refresh_tokens, sec, tokens, issued, holders, sreq, authOps,
                 refreshToken, storeVars>>

\* POST /refresh: DELETE FROM refresh_tokens WHERE user_id = $1 and the 401
RefreshDelete(s) ==
  /\ spc[s] \in {"refreshDeleteExpired", "refreshDeleteUnverified"}
  /\ refresh_tokens' = {row \in refresh_tokens : row.user_id # sreq[s].token[1]}
  /\ Answer(s, Plain(401, IF spc[s] = "refreshDeleteExpired"
                            THEN "Refresh token has expired"
                            ELSE "Please verify your email before logging in."))
  /\ UNCHANGED <<users, sec, tokens, issued, holders, sreq, authOps, refreshToken, storeVars>>

\* POST /refresh: SELECT id, email_verified FROM users WHERE id = $1 AND
\* is_active = true, and the new access token
RefreshUser(s) ==
  /\ spc[s] = "refreshUser"
  /\ LET u == sreq[s].token[1] IN
       IF u \notin DOMAIN users \/ ~users[u].is_active
         THEN Answer(s, Plain(401, "User account is inactive")) /\ holders' = holders
       ELSE IF ~users[u].email_verified
         THEN /\ spc' = [spc EXCEPT ![s] = "refreshDeleteUnverified"]
              /\ UNCHANGED <<sres, holders>>
       ELSE /\ Answer(s, [Plain(200, "") EXCEPT !.accessToken = {u}])
            /\ holders' = holders \cup {u}
  /\ UNCHANGED <<users, refresh_tokens, sec, tokens, issued, sreq, authOps, refreshToken, storeVars>>

\* time passes expires_at of a stored refresh token
ExpireToken(u) ==
  /\ \E row \in refresh_tokens : row.user_id = u /\ ~row.expired
  /\ refresh_tokens' = {IF row.user_id = u THEN [row EXCEPT !.expired = TRUE] ELSE row :
                          row \in refresh_tokens}
  /\ UNCHANGED <<users, sec, tokens, issued, holders, spc, sreq, sres, authOps, refreshToken, storeVars>>

\* the clock moves to the next second
TickSecond ==
  /\ sec < MaxSec
  /\ sec' = sec + 1
  /\ UNCHANGED <<users, refresh_tokens, tokens, issued, holders, spc, sreq, sres, authOps,
                 refreshToken, storeVars>>

\* ------------------------------------------------------------ specification
\* the steps of the POST /orders handlers after the request has arrived
Steps ==
  \/ \E r \in Reqs : GetClient(r)
  \/ \E r \in Reqs : Begin(r)
  \/ \E r \in Reqs : SelectForUpdate(r)
  \/ \E r \in Reqs : UpdateStock(r)
  \/ \E r \in Reqs : InsertOrder(r)
  \/ \E r \in Reqs : InsertItem(r)
  \/ \E r \in Reqs : Commit(r)
  \/ \E r \in Reqs : Rollback400(r)

\* a store call raises an error, and the catch block that follows
Faults(codes, budget) ==
  \/ \E r \in Reqs, code \in codes : faults < budget /\ StoreFault(r, code)
  \/ \E r \in Reqs : CatchRollback(r)

AdminSteps ==
  \/ \E a \in Admins, b \in CreateBodies : AdminCreateProduct(a, b)
  \/ \E a \in Admins, p \in ProductIds, b \in PatchBodies : AdminPatchSelect(a, p, b)
  \/ \E a \in Admins : AdminPatchUpdate(a)

\* two concurrent orders, no store errors
Next ==
  \/ \E r \in Reqs, b \in LeanBodies : Receive(r, b)
  \/ Steps

Spec == Init /\ [][Next]_vars

\* two concurrent single-line orders.  The event loop resumes every handler
\* whose store call has been answered, and the store answers every call that
\* does not wait for a row lock
NextContended ==
  \/ \E r \in Reqs, b \in OneItemBodies : Receive(r, b)
  \/ Steps

SpecFair == Init /\ [][NextContended]_vars /\ WF_vars(NextContended)

\* two concurrent orders with one store error, on a catalog whose products
\* are in stock
NextFaults ==
  \/ \E r \in Reqs, b \in LeanBodies : Receive(r, b)
  \/ Steps
  \/ Faults({"08006"}, MaxFaults)

SpecFaults == InitWith(FaultCatalogs) /\ [][NextFaults]_vars

\* one order with every shape of body and one store error of any kind
NextSingle ==
  \/ \E b \in RichBodies : Receive("r1", b)
  \/ Steps
  \/ Faults(FaultCodes, MaxFaults)

SpecSingle == Init /\ [][NextSingle]_vars

\* one order on a connection that fails and keeps failing: a second store
\* error can hit the ROLLBACK of the catch block
NextRollback ==
  \/ \E b \in LeanBodies : Receive("r1", b)
  \/ Steps
  \/ Faults({"08006"}, MaxFaults + 1)

SpecRollback == Init /\ [][NextRollback]_vars

\* one order next to the admin product routes
NextAdmin ==
  \/ \E b \in OneItemBodies : Receive("r1", b)
  \/ Steps
  \/ AdminSteps

SpecAdmin == Init /\ [][NextAdmin]_vars

\* one order of up to MaxItems lines, then the admin routes on products and
\* on the order
NextCatalog ==
  \/ \E b \in LeanBodies : Receive("r1", b)
  \/ Steps
  \/ \E a \in Admins, p \in ProductIds, b \in PatchBodies : AdminPatchSelect(a, p, b)
  \/ \E a \in Admins : AdminPatchUpdate(a)
  \/ \E a \in Admins, p \in ProductIds : AdminDeleteProduct(a, p)
  \/ \E a \in Admins, o \in Reqs, s \in StatusInputs : AdminUpdateOrderStatus(a, o, s)

SpecCatalog == Init /\ [][NextCatalog]_vars

TwoItemBodies == {b \in LeanBodies : Len(b.items) = 2}

\* the tables in which every product exists
BothCatalogs == {c \in Catalogs : DOMAIN c = ProductIds}

\* two concurrent two-line orders.  The store's deadlock detector runs
\* whenever a lock wait lasts, and the event loop resumes every handler whose
\* store call has been answered
NextDeadlock ==
  \/ \E r \in Reqs, b \in TwoItemBodies : Receive(r, b)
  \/ Steps
  \/ \E r \in Reqs : DeadlockAbort(r)
  \/ \E r \in Reqs : CatchRollback(r)

SpecDeadlock == InitWith(BothCatalogs) /\ [][NextDeadlock]_vars /\ WF_vars(NextDeadlock)

\* concurrent callers of decrement_stock
NextDecrement ==
  \/ \E c \in Callers, p \in ProductIds, q \in FnQuantities :
       CallFn(c, "decrement_stock", p, q)
  \/ \E c \in Callers : DecrementSelect(c)
  \/ \E c \in Callers : DecrementUpdate(c)

SpecDecrement == Init /\ [][NextDecrement]_vars

\* concurrent callers of decrement_stock and restore_stock
NextStock ==
  \/ \E c \in Callers, fn \in {"decrement_stock", "restore_stock"},
        p \in ProductIds, q \in FnQuantities : CallFn(c, fn, p, q)
  \/ FnSteps

SpecStock == Init /\ [][NextStock]_vars

\* registration, verification and login of one client: the requests of a
\* sequence, each answered before the next arrives
NextVerify ==
  \/ \E e \in Users : Register("s1", e, "pw")
  \/ \E e \in Users, c \in 0..MaxCodes : VerifyEmail("s1", e, c)
  \/ \E c \in 0..MaxCodes : VerifyEmailByToken("s1", c)
  \/ \E e \in Users : ResendVerification("s1", e)
  \/ \E u \in Users : ExpireCode(u)
  \/ \E e \in Users, pw \in Passwords : LoginSelect("s1", e, pw)
  \/ LoginUpsert("s1")
  \/ \E t \in issued \cup {<<>>} : RefreshCall("s1", t)
  \/ RefreshSelect("s1")
  \/ RefreshDelete("s1")
  \/ RefreshUser("s1")
  \/ \E u \in Users : ExpireToken(u)

SpecVerify == InitWith(NoCatalog) /\ [][NextVerify]_vars

\* ================================================================== claims
\* the request of r has an order in the committed orders table
Committed(r) == \E o \in orders : o.id = r

\* the committed order items of the order of r
ItemsOf(r) == {i \in order_items : i.order_id = r}

\* the order items the request of r asks for
AllItems(r) == {OrderItemRow(r, i) : i \in 1..Len(req[r].items)}

RECURSIVE SumQty(_, _)
SumQty(items, p) ==
  IF items = <<>> THEN 0
  ELSE (IF Head(items).productId = p THEN Head(items).quantity ELSE 0)
       + SumQty(Tail(items), p)

\* the quantity of product p the request of r asks for, over all its lines
QtyOf(r, p) == SumQty(req[r].items, p)

RECURSIVE SumOver(_, _)
SumOver(S, p) ==
  IF S = {} THEN 0
  ELSE LET r == CHOOSE x \in S : TRUE IN QtyOf(r, p) + SumOver(S \ {r}, p)

\* C1: atomicity of placeOrder.  In every state the committed tables hold,
\* for each request, either its order with all of its order items or neither,
\* and each product's committed stock has gone down by exactly the quantities
\* of the requests whose order is committed: no decrement without its order,
\* no order without its decrements or without all of its items.
C1_Atomicity ==
  /\ \A r \in Reqs : ItemsOf(r) = IF Committed(r) THEN AllItems(r) ELSE {}
  /\ \A o \in orders : o = OrderRow(o.id)
  /\ DOMAIN products = DOMAIN stock0
  /\ \A p \in DOMAIN products :
       stock0[p].stock_quantity - products[p].stock_quantity
         = SumOver({r \in Reqs : Committed(r)}, p)

\* a request is about to roll back after it has decremented an earlier line,
\* while the other request has its order committed
C1_Witness ==
  \E r \in Reqs :
    /\ pc[r] \in {"rollbackInsufficient", "rollbackNotFound", "catch"}
    /\ \E p \in ProductIds : lock[p] = r
    /\ \E r2 \in Reqs \ {r} : Committed(r2)

\* C2: no oversell.  The stock of a product is never negative, in the
\* committed table and in the writes of every open transaction, and two
\* requests that together ask for more of a product than its stock never
\* both commit.
C2_NoOversell ==
  /\ \A p \in DOMAIN products : products[p].stock_quantity >= 0
  /\ \A r \in Reqs : \A p \in DOMAIN tx[r].products :
       tx[r].products[p].stock_quantity >= 0
  /\ (Committed("r1") /\ Committed("r2")) =>
       \A p \in DOMAIN stock0 :
         QtyOf("r1", p) + QtyOf("r2", p) <= stock0[p].stock_quantity

\* r1 has committed, and r2, which asked for no more than the initial stock,
\* has read the row after r1 and found the stock insufficient
C2_Witness ==
  /\ Committed("r1")
  /\ pc["r2"] = "rollbackInsufficient"
  /\ \E p \in DOMAIN stock0 :
       /\ product["r2"].id = p
       /\ QtyOf("r2", p) <= stock0[p].stock_quantity
       /\ QtyOf("r1", p) + QtyOf("r2", p) > stock0[p].stock_quantity

\* both requests were answered and their handlers have returned
BothDone == \A r \in Reqs : pc[r] = "done"

\* two single-line requests for the same product p, each within the initial
\* stock and together beyond it
Contended(p) ==
  /\ p \in DOMAIN stock0
  /\ \A r \in Reqs : Len(req[r].items) = 1 /\ req[r].items[1].productId = p
  /\ \A r \in Reqs : QtyOf(r, p) <= stock0[p].stock_quantity
  /\ QtyOf("r1", p) + QtyOf("r2", p) > stock0[p].stock_quantity

\* w got 201, the other request got the insufficient-stock 400, and the
\* committed stock is the initial stock less the quantity of w
WinnerIs(w, p) ==
  /\ Len(res[w]) = 1 /\ res[w][1].status = 201
  /\ \A l \in Reqs \ {w} :
       res[l] = <<[status |-> 400,
                   error |-> <<"Insufficient stock for", stock0[p].name>>,
                   data |-> {}]>>
  /\ products[p].stock_quantity = stock0[p].stock_quantity - QtyOf(w, p)

\* C3: contended checkout has exactly one winner.  Two concurrent single-line
\* requests for one product, each within the stock and together beyond it,
\* both finish in every interleaving of their store calls; exactly one gets
\* 201, the other the insufficient-stock 400, and the stock left is the stock
\* less the winner's quantity.
C3_OneWinner ==
  /\ [](\A p \in ProductIds :
          (Contended(p) /\ BothDone) => \E w \in Reqs : WinnerIs(w, p))
  /\ \A p \in ProductIds : Contended(p) ~> BothDone

\* stock 1, two requests for 1 each, both answered, stock 0
C3_Witness ==
  \E p \in ProductIds :
    /\ Contended(p) /\ BothDone
    /\ stock0[p].stock_quantity = 1
    /\ products[p].stock_quantity = 0
    /\ \E w \in Reqs : WinnerIs(w, p)

\* C4: in_stock consistency.  In every committed state reached through
\* placeOrder, admin product create and admin product update, every product
\* has in_stock = (stock_quantity > 0).
C4_InStockConsistent ==
  \A p \in DOMAIN products :
    products[p].in_stock = (products[p].stock_quantity > 0)

\* the order of r1 has committed after an admin request was answered, and it
\* took the last unit of a product
C4_Witness ==
  /\ Committed("r1")
  /\ adminOps > 0
  /\ \E p \in DOMAIN products :
       /\ QtyOf("r1", p) > 0
       /\ products[p].stock_quantity = 0
       /\ ~products[p].in_stock

\* ---------------------------------------------- one order, start to finish
\* line j of the request of r finds its product with enough stock left after
\* the earlier lines of the same request
LinePasses(r, j) ==
  LET items == req[r].items
      p == items[j].productId
  IN /\ p \in DOMAIN stock0
     /\ stock0[p].stock_quantity - SumQty(SubSeq(items, 1, j - 1), p)
          >= items[j].quantity

\* the lines of the request of r that do not pass
Failing(r) == {j \in 1..Len(req[r].items) : ~LinePasses(r, j)}

Min(S) == CHOOSE x \in S : \A y \in S : x <= y

\* the handler of r has returned, its body was valid and no store call failed
Finished(r) == pc[r] = "done" /\ ValidationError(req[r]) = "" /\ faults = 0

\* nothing of the request of r is in the committed tables
NothingPersisted(r) ==
  /\ products = stock0
  /\ orders = {}
  /\ order_items = {}
  /\ tx[r] = NoTx
  /\ \A p \in ProductIds : lock[p] = NoLock

NotFound400 == [status |-> 400,
                error |-> <<"One or more products no longer exist">>,
                data |-> {}]

Insufficient400(name) == [status |-> 400,
                          error |-> <<"Insufficient stock for", name>>,
                          data |-> {}]

\* a line of the request of r names a product that does not exist
NamesMissing(r) ==
  \E j \in 1..Len(req[r].items) : req[r].items[j].productId \notin DOMAIN stock0

\* C5 as stated: whenever any line names a product that does not exist, the
\* answer is the 400 'One or more products no longer exist' and nothing is
\* persisted.
C5_AsStated ==
  \A r \in Reqs :
    (Finished(r) /\ NamesMissing(r)) =>
      (res[r] = <<NotFound400>> /\ NothingPersisted(r))

\* C5, amended: when a line names a product that does not exist, the request
\* is answered 400 and nothing is persisted (no order, no order item, every
\* stock unchanged); the error is 'One or more products no longer exist'
\* when the first line that fails is a missing product, and the
\* insufficient-stock error of the earlier line that ran short otherwise.
C5_NotFound ==
  \A r \in Reqs :
    (Finished(r) /\ NamesMissing(r)) =>
      LET k == Min(Failing(r))
          p == req[r].items[k].productId
      IN /\ NothingPersisted(r)
         /\ res[r] = <<IF p \notin DOMAIN stock0 THEN NotFound400
                       ELSE Insufficient400(stock0[p].name)>>

\* the last of two lines names a missing product, the first line was
\* decremented, and the request was answered with the not-found 400
C5_Witness ==
  /\ Finished("r1")
  /\ Len(req["r1"].items) = 2
  /\ LinePasses("r1", 1)
  /\ req["r1"].items[2].productId \notin DOMAIN stock0
  /\ res["r1"] = <<NotFound400>>

\* C6: insufficient stock.  When the first line that fails finds its product
\* with less stock than it asks for, the request is answered 400 with the
\* error naming that product by its stored name, and nothing is persisted:
\* no order, no order item, the decrements of the earlier lines undone.
C6_Insufficient ==
  \A r \in Reqs :
    (Finished(r) /\ Failing(r) # {}) =>
      LET k == Min(Failing(r))
          p == req[r].items[k].productId
      IN p \in DOMAIN stock0 =>
           (res[r] = <<Insufficient400(stock0[p].name)>> /\ NothingPersisted(r))

\* the second line ran short after the first was decremented; the client
\* called the product 'Runner' and the answer names it by its stored name
C6_Witness ==
  /\ Finished("r1")
  /\ Len(req["r1"].items) = 2
  /\ Failing("r1") = {2}
  /\ req["r1"].items[2].productId \in DOMAIN stock0
  /\ req["r1"].items[2].product_name = "Runner"
  /\ res["r1"] = <<Insufficient400(stock0[req["r1"].items[2].productId].name)>>

\* C7: release on all paths.  A handler acquires at most one client, holds
\* it exactly from getClient to its single release, has released it when it
\* returns on any path, and releases nothing when it acquired nothing; when
\* every handler has returned no client is held.
C7_ReleaseOnAllPaths ==
  /\ \A r \in Reqs :
       /\ acquires[r] <= 1
       /\ releases[r] <= acquires[r]
       /\ client[r] = (acquires[r] = 1 /\ releases[r] = 0)
       /\ pc[r] \in {"idle", "getClient"} => acquires[r] = 0
       /\ pc[r] = "done" => (releases[r] = acquires[r] /\ ~client[r])
  /\ BothDone => Cardinality({r \in Reqs : client[r]}) = 0

\* the ROLLBACK of the catch block failed and the client was still released
C7_Witness ==
  /\ pc["r1"] = "done"
  /\ escaped["r1"]
  /\ faults = 2
  /\ acquires["r1"] = 1
  /\ releases["r1"] = 1

\* C8 as stated: after a store call of the handler has failed, the
\* transaction is rolled back, next(error) was called once, the operation
\* was not tried again, and the one answer is a server error (5xx).
C8_AsStated ==
  (pc["r1"] = "done" /\ faults > 0) =>
    /\ NothingPersisted("r1")
    /\ nextCalls["r1"] = 1
    /\ acquires["r1"] <= 1
    /\ Len(res["r1"]) = 1
    /\ res["r1"][1].status >= 500

\* every product's committed stock is the initial stock less what r asked for
StockReducedBy(r) ==
  /\ DOMAIN products = DOMAIN stock0
  /\ \A p \in DOMAIN products :
       /\ products[p].stock_quantity = stock0[p].stock_quantity - QtyOf(r, p)
       /\ products[p].name = stock0[p].name

\* the one answer of r is a 201
Answered201(r) == Len(res[r]) = 1 /\ res[r][1].status = 201

\* C9 as stated: a request whose lines all pass commits one pending order of
\* the requester with exactly the client's total and shipping address, one
\* order item per line with the line's productId, quantity, size (or null),
\* exactly the client's price and the client's product_name (or 'Product'
\* when absent), reduces each stock by the quantity asked, and answers 201.
C9_AsStated ==
  \A r \in Reqs :
    (Finished(r) /\ Failing(r) = {}) =>
      /\ Answered201(r)
      /\ orders = {[id |-> r, user_id |-> SessionUser(r),
                    total |-> req[r].total, status |-> "pending",
                    shipping_address |-> req[r].shippingAddress]}
      /\ order_items =
           {[id |-> <<r, i>>, order_id |-> r,
             product_id |-> req[r].items[i].productId,
             product_name |-> IF req[r].items[i].product_name = Undefined
                              THEN "Product" ELSE req[r].items[i].product_name,
             quantity |-> req[r].items[i].quantity,
             size |-> IF req[r].items[i].size = Undefined
                      THEN "null" ELSE req[r].items[i].size,
             price |-> req[r].items[i].price] : i \in 1..Len(req[r].items)}
      /\ StockReducedBy(r)

\* the total and the price as the DECIMAL(10,2) columns keep them
Stored2(m) == IF m % 10 >= 5 THEN m - (m % 10) + 10 ELSE m - (m % 10)

\* a string field of a line that is neither absent nor empty
Supplied(x) == x # Undefined /\ x # ""

\* C9, amended: a request whose lines all pass commits one pending order of
\* the requester whose total is the client's total rounded to two decimals
\* (not recomputed from the items) and whose shipping address is the
\* client's; one order item per line with the line's productId and quantity,
\* its size (null when absent or empty), the client's price rounded to two
\* decimals and the client's product_name ('Product' when absent or empty);
\* each stock is reduced by the quantity asked; the answer is 201.
C9_Success ==
  \A r \in Reqs :
    (Finished(r) /\ Failing(r) = {}) =>
      /\ Answered201(r)
      /\ res[r][1].data = orders
      /\ orders = {[id |-> r, user_id |-> SessionUser(r),
                    total |-> Stored2(req[r].total), status |-> "pending",
                    shipping_address |-> req[r].shippingAddress]}
      /\ order_items =
           {[id |-> <<r, i>>, order_id |-> r,
             product_id |-> req[r].items[i].productId,
             product_name |-> IF Supplied(req[r].items[i].product_name)
                              THEN req[r].items[i].product_name ELSE "Product",
             quantity |-> req[r].items[i].quantity,
             size |-> IF Supplied(req[r].items[i].size)
                      THEN req[r].items[i].size ELSE "null",
             price |-> Stored2(req[r].items[i].price)] :
               i \in 1..Len(req[r].items)}
      /\ StockReducedBy(r)

\* a two-line order was committed whose total has three decimals and is not
\* the sum of its lines, one line with and one without a product_name
C9_Witness ==
  /\ Finished("r1") /\ Failing("r1") = {}
  /\ Len(req["r1"].items) = 2
  /\ req["r1"].total = 39985
  /\ req["r1"].items[1].product_name = Undefined
  /\ req["r1"].items[2].product_name = "Runner"
  /\ Cardinality(order_items) = 2
  /\ Answered201("r1")

\* C10: boundary.  A single-line request for exactly the current stock of an
\* existing product is answered 201 and leaves stock_quantity = 0 and
\* in_stock = false; a request for one more than the stock is answered with
\* the insufficient-stock 400 and changes nothing.
C10_Boundary ==
  \A r \in Reqs :
    (Finished(r) /\ Len(req[r].items) = 1
       /\ req[r].items[1].productId \in DOMAIN stock0) =>
      LET p == req[r].items[1].productId
          q == req[r].items[1].quantity
          s == stock0[p].stock_quantity
      IN /\ q = s => /\ Answered201(r)
                     /\ products[p].stock_quantity = 0
                     /\ products[p].in_stock = FALSE
         /\ q = s + 1 => /\ res[r] = <<Insufficient400(stock0[p].name)>>
                         /\ products = stock0

\* the request took the whole stock of MaxStock units
C10_Witness ==
  /\ Finished("r1")
  /\ Len(req["r1"].items) = 1
  /\ \E p \in DOMAIN stock0 :
       /\ req["r1"].items[1].productId = p
       /\ req["r1"].items[1].quantity = stock0[p].stock_quantity
       /\ stock0[p].stock_quantity >= 2
       /\ products[p].stock_quantity = 0
       /\ ~products[p].in_stock
  /\ Answered201("r1")

\* the committed order item with the id of it, after the step
After(it) == CHOOSE it2 \in order_items' : it2.id = it.id

\* C11: snapshot immutability.  In every step (an admin product update of
\* name, price or stock, an admin product deletion, or any other operation)
\* every committed order item stays in order_items with the same
\* product_name, price and quantity; its product reference is unchanged, or
\* becomes null when the product it referenced was deleted by the step.
C11_SnapshotImmutable ==
  [][\A it \in order_items :
       /\ \E it2 \in order_items' : it2.id = it.id
       /\ After(it).product_name = it.product_name
       /\ After(it).price = it.price
       /\ After(it).quantity = it.quantity
       /\ \/ After(it).product_id = it.product_id
          \/ /\ After(it).product_id = "null"
             /\ it.product_id \in DOMAIN products
             /\ it.product_id \notin DOMAIN products']_vars

\* an order of two lines was committed; afterwards the product of the first
\* line was renamed and repriced and the product of the second was deleted
C11_Witness ==
  /\ Cardinality(order_items) = 2
  /\ \E it \in order_items :
       /\ it.product_id \in DOMAIN products
       /\ it.product_name = "Product" /\ it.price = 19990
       /\ products[it.product_id].name = "Runner"
       /\ products[it.product_id].price = Numeric2(24995)
  /\ \E it \in order_items :
       /\ it.product_id = "null"
       /\ it.product_name = "Product" /\ it.price = 19990
       /\ it.quantity \in 1..MaxQty

\* the committed order with the id of o, after the step
OrderAfter(o) == CHOOSE o2 \in orders' : o2.id = o.id

\* the step is the COMMIT of the POST /orders handler of request r
IsCommitOf(r) == pc[r] = "commit" /\ pc'[r] = "done" /\ Len(res'[r]) = 1
                   /\ res'[r][1].status = 201

\* the step is an answer of an admin route
IsAdminAnswer == adminOps' = adminOps + 1

\* C12: order lifecycle.  Every order's status is always one of pending,
\* processing, shipped, completed, cancelled.  An order or an order item
\* appears only in the COMMIT step of placeOrder, the order with status
\* 'pending'.  An existing order stays and keeps its id, owner, total and
\* shipping address; its status changes only in a step of the admin status
\* update.  An existing order item stays and keeps its order reference,
\* quantity, size, price and product_name.
C12_OrderLifecycle ==
  /\ [](\A o \in orders : o.status \in Statuses)
  /\ [][/\ \A o \in orders' :
             (\A old \in orders : old.id # o.id) =>
               (o.status = "pending" /\ IsCommitOf(o.id))
        /\ \A it \in order_items' :
             (\A old \in order_items : old.id # it.id) => IsCommitOf(it.order_id)
        /\ \A o \in orders :
             /\ \E o2 \in orders' : o2.id = o.id
             /\ OrderAfter(o).user_id = o.user_id
             /\ OrderAfter(o).total = o.total
             /\ OrderAfter(o).shipping_address = o.shipping_address
             /\ OrderAfter(o).status # o.status => IsAdminAnswer
        /\ \A it \in order_items :
             /\ \E it2 \in order_items' : it2.id = it.id
             /\ After(it).order_id = it.order_id
             /\ After(it).quantity = it.quantity
             /\ After(it).size = it.size
             /\ After(it).price = it.price
             /\ After(it).product_name = it.product_name]_vars

\* the order of r1 was committed and an admin moved it to 'shipped'
C12_Witness ==
  /\ \E o \in orders : o.id = "r1" /\ o.status = "shipped" /\ o.total = 19990
  /\ order_items # {}
  /\ adminOps >= 1

\* a body with an empty or missing items list, an item with a non-UUID
\* productId, a quantity below 1 or a negative price, a missing or negative
\* total, or a missing shippingAddress
Malformed(b) ==
  \/ "items" \in b.missing
  \/ b.items = <<>>
  \/ \E i \in 1..Len(b.items) :
       \/ b.items[i].productId \notin ProductIds
       \/ b.items[i].quantity < 1
       \/ b.items[i].price < 0
  \/ "total" \in b.missing
  \/ b.total < 0
  \/ "shippingAddress" \in b.missing

\* C13: validation precedes the transaction.  A request with a malformed
\* body is answered 400 at once: no store client is ever acquired for it, no
\* transaction is opened, no lock is taken, the error handler is not called,
\* and products, orders and order_items are unchanged.
C13_ValidationFirst ==
  \A r \in Reqs :
    (pc[r] # "idle" /\ Malformed(req[r])) =>
      /\ pc[r] = "done"
      /\ Len(res[r]) = 1 /\ res[r][1].status = 400
      /\ acquires[r] = 0 /\ releases[r] = 0 /\ ~client[r]
      /\ tx[r] = NoTx
      /\ \A p \in ProductIds : lock[p] # r
      /\ nextCalls[r] = 0
      /\ products = stock0 /\ orders = {} /\ order_items = {}

\* a request whose only line asks for quantity 0 was answered 400
C13_Witness ==
  /\ pc["r1"] = "done"
  /\ Len(req["r1"].items) = 1
  /\ req["r1"].items[1].quantity = 0
  /\ req["r1"].items[1].productId \in DOMAIN products
  /\ res["r1"] = <<[status |-> 400, error |-> <<"Quantity must be at least 1">>,
                    data |-> {}]>>
  /\ acquires["r1"] = 0

\* the products whose row lock r holds
LockedBy(r) == {p \in ProductIds : lock[p] = r}

\* the step gives r the row lock of p
Acquires(r, p) == lock[p] # r /\ lock'[p] = r

\* C14: lock order within one order.  (1) The lock a request acquires is the
\* lock of the product of the next line in the client's order: the products
\* of all earlier lines are already locked by it and nothing else is.  (2) The
\* row a request has read and every row it has decremented is locked by it.
\* (3) A request loses a lock only in the step that ends its transaction
\* (COMMIT or ROLLBACK), and then it loses all of them.
C14_LockOrder ==
  /\ [](\A r \in Reqs :
          /\ \A p \in DOMAIN tx[r].products : lock[p] = r
          /\ product[r] # NoProduct => lock[product[r].id] = r)
  /\ [][\A r \in Reqs :
          /\ \A p \in ProductIds :
               Acquires(r, p) =>
                 \E i \in 1..Len(req[r].items) :
                   /\ req[r].items[i].productId = p
                   /\ LockedBy(r) = {req[r].items[j].productId : j \in 1..(i - 1)}
                   /\ tx[r].state = "open"
          /\ (\E p \in ProductIds : lock[p] = r /\ lock'[p] # r) =>
               /\ pc[r] \in {"commit", "rollbackNotFound", "rollbackInsufficient",
                             "catch"}
               /\ pc'[r] = "done"
               /\ tx'[r] = NoTx
               /\ \A q \in ProductIds : lock'[q] # r]_vars

\* a request that lists p2 before p1 holds both locks, having decremented p2
C14_Witness ==
  /\ Len(req["r1"].items) = 2
  /\ req["r1"].items[1].productId = "p2"
  /\ req["r1"].items[2].productId = "p1"
  /\ LockedBy("r1") = {"p1", "p2"}
  /\ DOMAIN tx["r1"].products = {"p2"}
  /\ product["r1"].id = "p1"

\* each request holds the row lock the other one waits for
Deadlocked == \E r, o \in Reqs : r # o /\ WaitsFor(r, o) /\ WaitsFor(o, r)

\* r was answered by the error handler with status st
AnsweredBy(r, st) == pc[r] = "done" /\ Len(res[r]) = 1 /\ res[r][1].status = st

\* the committed stock is the initial stock less the lines of the committed orders
StockMatchesCommitted ==
  \A p \in DOMAIN products :
    products[p].stock_quantity =
      stock0[p].stock_quantity - SumOver({r \in Reqs : Committed(r)}, p)

\* the request the store aborted got a server error, left no order and no
\* stock change, and was not retried
VictimContained ==
  \A r \in Reqs :
    (pc[r] = "done" /\ nextCalls[r] > 0) =>
      /\ AnsweredBy(r, 500)
      /\ nextCalls[r] = 1 /\ acquires[r] = 1 /\ releases[r] = 1
      /\ ~Committed(r)
      /\ \A p \in ProductIds : lock[p] # r
      /\ StockMatchesCommitted

\* C15 as stated: after a deadlock the aborted request is contained and the
\* other request proceeds to commit.
C15_AsStated ==
  /\ []VictimContained
  /\ Deadlocked ~> \E v, o \in Reqs :
                     /\ v # o /\ AnsweredBy(v, 500)
                     /\ AnsweredBy(o, 201) /\ Committed(o)

\* C15, amended: two requests naming the same two products in opposite order
\* can deadlock; the request the store aborts ends with status 500, no stock
\* change and no order, and is not retried; the other request is then no
\* longer blocked and runs to its end: it commits (201) when its remaining
\* lines have enough stock, and is answered the business-rule 400 otherwise.
C15_DeadlockContained ==
  /\ []VictimContained
  /\ Deadlocked ~> \E v, o \in Reqs :
                     /\ v # o /\ AnsweredBy(v, 500)
                     /\ \/ AnsweredBy(o, 201) /\ Committed(o)
                        \/ AnsweredBy(o, 400) /\ ~Committed(o)

\* r1 holds p1 and waits for p2, r2 holds p2 and waits for p1
C15_Witness ==
  /\ WaitsFor("r1", "r2") /\ WaitsFor("r2", "r1")
  /\ lock = [p \in ProductIds |-> IF p = "p1" THEN "r1" ELSE "r2"]
  /\ DOMAIN tx["r1"].products = {"p1"}
  /\ DOMAIN tx["r2"].products = {"p2"}

\* the step returns from the call of fn that c made
Returns(c, fn) == fargs[c].fn = fn /\ Len(fret'[c]) = Len(fret[c]) + 1

\* the value the step returns to c
Returned(c) == fret'[c][Len(fret'[c])]

\* C16: decrement_stock soft failure.  A call returns only true or false.  It
\* returns false and changes no product when the product does not exist or
\* its stock_quantity is less than the quantity; otherwise it returns true,
\* reduces that product's stock_quantity by exactly the quantity and leaves
\* every other product unchanged.  No stock_quantity is ever negative, also
\* with two callers on the same product.
C16_SoftFailure ==
  /\ [](\A p \in DOMAIN products : products[p].stock_quantity >= 0)
  /\ [][\A c \in Callers :
          Returns(c, "decrement_stock") =>
            LET p == fargs[c].p_product_id
                q == fargs[c].p_quantity
            IN IF p \notin DOMAIN products \/ products[p].stock_quantity < q
                 THEN Returned(c) = "false" /\ products' = products
                 ELSE /\ Returned(c) = "true"
                      /\ DOMAIN products' = DOMAIN products
                      /\ products'[p].stock_quantity = products[p].stock_quantity - q
                      /\ \A o \in DOMAIN products \ {p} : products'[o] = products[o]]_vars

\* two callers asked for the one unit of the same product: one got true, the
\* other false, and the stock is 0
C16_Witness ==
  /\ \E p \in DOMAIN products :
       /\ stock0[p].stock_quantity = 1
       /\ products[p].stock_quantity = 0
       /\ \A c \in Callers : fargs[c] = [fn |-> "decrement_stock",
                                         p_product_id |-> p, p_quantity |-> 1]
  /\ fret["c1"] = <<"true">>
  /\ fret["c2"] = <<"false">>

\* C17 as stated: the stock primitives keep the in_stock rule.  After every
\* decrement_stock call that returns true and after every restore_stock call
\* on an existing product, for every quantity >= 0, the product satisfies
\* in_stock = (stock_quantity > 0).
C17_AsStated ==
  [][\A c \in Callers :
       LET p == fargs[c].p_product_id IN
         (/\ fargs[c].p_quantity >= 0
          /\ p \in DOMAIN products
          /\ \/ Returns(c, "decrement_stock") /\ Returned(c) = "true"
             \/ Returns(c, "restore_stock")) =>
           products'[p].in_stock = (products'[p].stock_quantity > 0)]_vars

\* the step is the arrival of a request of route op at s
Arrives(s, op) == authOps' = authOps + 1 /\ sreq'[s].op = op /\ spc[s] = "idle"

\* the step sends the answer of s
Answers(s) == spc'[s] = "idle" /\ (spc[s] # "idle" \/ authOps' = authOps + 1)

\* the answer of s after the step carries a token
CarriesToken(s) == sres'[s].accessToken # {} \/ sres'[s].refreshToken # <<>>

\* the step makes email_verified of u true
BecomesVerified(u) ==
  /\ u \in DOMAIN users'
  /\ users'[u].email_verified
  /\ u \notin DOMAIN users \/ ~users[u].email_verified

\* C18: verify before login.  (1) The step that answers a registration sends
\* no access or refresh token and stores none.  (2) A step sends or stores a
\* token only as the answer of a login or a refresh, and only for a user
\* whose email_verified is true.  (3) email_verified of a user becomes true
\* only in the step of a verification request that presents the user's
\* current verification token while it is unexpired.
C18_VerifyBeforeLogin ==
  [][/\ \A s \in Sessions :
          Arrives(s, "register") =>
            /\ ~CarriesToken(s)
            /\ refresh_tokens' = refresh_tokens /\ issued' = issued
            /\ holders' = holders
     /\ \A s \in Sessions :
          (Answers(s) /\ CarriesToken(s)) =>
            /\ sreq'[s].op \in {"login", "refresh"}
            /\ \A u \in sres'[s].accessToken :
                 u \in DOMAIN users /\ users[u].email_verified
     /\ (issued' # issued \/ holders' # holders
           \/ \E row \in refresh_tokens' : row \notin refresh_tokens /\ ~row.expired) =>
          \E s \in Sessions : Answers(s) /\ CarriesToken(s)
     /\ \A u \in Users :
          BecomesVerified(u) =>
            /\ u \in DOMAIN users
            /\ ~users[u].code_expired
            /\ \E s \in Sessions :
                 /\ \/ Arrives(s, "verify-email") /\ sreq'[s].email = u
                    \/ Arrives(s, "verify-email-link")
                 /\ users[u].verification_code = {sreq'[s].code}]_vars

\* u1 registered, asked for a second verification token, verified with it,
\* logged in and refreshed
C18_Witness ==
  /\ "u1" \in DOMAIN users
  /\ users["u1"].email_verified
  /\ tokens = 2
  /\ \E row \in refresh_tokens : row.user_id = "u1"
  /\ sreq["s1"].op = "refresh"
  /\ sres["s1"] = [status |-> 200, error |-> "", accessToken |-> {"u1"},
                   refreshToken |-> <<>>]

\* ---------------------------------------------------------- runMigrations
shopAndAuthVars == <<products, orders, order_items, lock, orderVars, stock0, adminVars,
                     fnVars, authVars, extraVars>>

\* file names are strings of UTF-16 code units: "1", "2", "10" and "4", each
\* with the extension ".sql" or ".md"
SqlSuffix == <<46, 115, 113, 108>>
OtherSuffix == <<46, 109, 100>>
Stems == {<<49>>, <<50>>, <<49, 48>>, <<52>>}
FileNames == {st \o ext : st \in Stems, ext \in {SqlSuffix, OtherSuffix}}

Range(l) == {l[i] : i \in DOMAIN l}

\* what readdirSync can return: the names of a directory, in any order
Listings ==
  {l \in UNION {[1..n -> FileNames] : n \in 0..MaxFiles} :
     \A i, j \in DOMAIN l : i # j => l[i] # l[j]}

endsWith(f, suffix) ==
  /\ Len(f) >= Len(suffix)
  /\ SubSeq(f, Len(f) - Len(suffix) + 1, Len(f)) = suffix

IsSql(f) == endsWith(f, SqlSuffix)

\* the default comparison of Array.prototype.sort: by code units, a proper
\* prefix first
RECURSIVE Before(_, _)
Before(a, b) ==
  IF b = <<>> THEN FALSE
  ELSE IF a = <<>> THEN TRUE
  ELSE IF a[1] # b[1] THEN a[1] < b[1]
  ELSE Before(Tail(a), Tail(b))

RECURSIVE Insert(_, _)
Insert(f, l) ==
  IF l = <<>> THEN <<f>>
  ELSE IF Before(l[1], f) THEN <<l[1]>> \o Insert(f, Tail(l))
  ELSE <<f>> \o l

\* mutant: the files are applied in the order readdirSync lists them
sort_Unsorted(l) == l

RECURSIVE sort(_)
sort(l) == IF l = <<>> THEN <<>> ELSE Insert(l[1], sort(Tail(l)))

Exit(code) ==
  /\ mpc' = "exited"
  /\ exitCode' = {code}

\* readdirSync, filter, sort and the check for an empty list
ReadDir(l) ==
  /\ mpc = "start"
  /\ migrationsDir' = l
  /\ migrationFiles' = sort(SelectSeq(l, IsSql))
  /\ IF Len(migrationFiles') = 0
       THEN Exit(0) /\ UNCHANGED fileIdx
       ELSE mpc' = "loop" /\ fileIdx' = 1 /\ UNCHANGED exitCode
  /\ UNCHANGED <<applied, caught, shopAndAuthVars>>

\* readdirSync throws, at no file: the catch block exits with 1
ReadDirFails ==
  /\ mpc = "start"
  /\ caught' = {<<>>}
  /\ Exit(1)
  /\ UNCHANGED <<migrationsDir, migrationFiles, fileIdx, applied, shopAndAuthVars>>

\* one turn of the loop: the file is read and its SQL is run; after the last
\* file the process exits with 0
ApplyFile ==
  /\ mpc = "loop"
  /\ applied' = Append(applied, migrationFiles[fileIdx])
  /\ IF fileIdx = Len(migrationFiles)
       THEN Exit(0) /\ UNCHANGED fileIdx
       ELSE fileIdx' = fileIdx + 1 /\ UNCHANGED <<mpc, exitCode>>
  /\ UNCHANGED <<migrationsDir, migrationFiles, caught, shopAndAuthVars>>

\* readFileSync throws or query rejects: the catch block exits with 1
ApplyFails ==
  /\ mpc = "loop"
  /\ caught' = {migrationFiles[fileIdx]}
  /\ Exit(1)
  /\ UNCHANGED <<migrationsDir, migrationFiles, fileIdx, applied, shopAndAuthVars>>

NextMigrate ==
  \/ \E l \in Listings : ReadDir(l)
  \/ ReadDirFails
  \/ ApplyFile
  \/ ApplyFails

SpecMigrate == InitWith(NoCatalog) /\ [][NextMigrate]_vars

\* C19: runMigrations applies the .sql files of the directory in ascending
\* filename order, each at most once and none skipped; a failure stops the
\* run, nothing is applied after it and the exit status is 1; the exit status
\* is 0 only when every .sql file of the directory was applied (which
\* includes the directory without .sql files).
SqlFilesOf(l) == {f \in Range(l) : IsSql(f)}

InFilenameOrder ==
  /\ \A i, j \in DOMAIN applied : i < j => Before(applied[i], applied[j])
  /\ Range(applied) \subseteq SqlFilesOf(migrationsDir)
  /\ \A f \in SqlFilesOf(migrationsDir) : \A i \in DOMAIN applied :
       Before(f, applied[i]) => f \in Range(applied)

ExitStatus ==
  /\ exitCode = {0} => Range(applied) = SqlFilesOf(migrationsDir)
  /\ exitCode = {0} => caught = {}
  /\ caught # {} => exitCode = {1}
  /\ exitCode = {1} => caught # {}
  /\ caught \cap Range(applied) = {}

StopsAtFailure ==
  (caught' # {} \/ exitCode # {}) => applied' = applied

C19_MigrationOrder ==
  [](InFilenameOrder /\ ExitStatus) /\ [][StopsAtFailure]_vars

\* readdirSync listed "2.sql", "10.sql", "1.sql"; "1.sql" was applied, "10.sql"
\* failed, "2.sql" was not applied and the process exited with 1
C19_Witness ==
  /\ migrationsDir = <<(<<50>> \o SqlSuffix), (<<49, 48>> \o SqlSuffix),
                       (<<49>> \o SqlSuffix)>>
  /\ applied = <<(<<49>> \o SqlSuffix)>>
  /\ caught = {<<49, 48>> \o SqlSuffix}
  /\ exitCode = {1}

\* ------------------------------------------------- sessions of two clients
\* both users have registered and verified their email
InitVerified ==
  /\ InitBase(NoCatalog)
  /\ tokens = Cardinality(Users)
  /\ users = [u \in Users |-> VerifiedRow(NewUser("pw"))]

\* logins, refreshes and logouts of two clients, interleaved at the store calls
NextSessions ==
  \/ \E s \in Sessions, e \in Users, pw \in Passwords : LoginSelect(s, e, pw)
  \/ \E s \in Sessions : LoginUpsert(s)
  \/ \E s \in Sessions, u \in Users : Logout(s, u)
  \/ \E s \in Sessions, t \in issued \cup {<<>>} : RefreshCall(s, t)
  \/ \E s \in Sessions : RefreshSelect(s)
  \/ \E s \in Sessions : RefreshDelete(s)
  \/ \E s \in Sessions : RefreshUser(s)
  \/ \E u \in Users : ExpireToken(u)
  \/ TickSecond

SpecSessions == InitVerified /\ [][NextSessions]_vars

\* C20: refresh_tokens holds at most one row per user under every
\* interleaving of logins, refreshes and logouts; a login that succeeds
\* leaves its own refresh token as the stored one of its user; and when
\* /refresh looks up a refresh token that a login issued and that is not the
\* stored one of its user, the request is answered 401 and no access token.
RowsOf(u) == {row \in refresh_tokens : row.user_id = u}

OneRowPerUser == \A u \in Users : Cardinality(RowsOf(u)) <= 1

\* the step in which the login of s stores its token and answers
LoginAnswers(s) == spc[s] = "loginUpsert" /\ spc'[s] = "idle"

LoginReplaces ==
  \A s \in Sessions : LoginAnswers(s) =>
    /\ sres'[s].status = 200
    /\ sres'[s].refreshToken # <<>>
    /\ \A row \in refresh_tokens' :
         row.user_id = sreq[s].email => row.token = sres'[s].refreshToken
    /\ \E row \in refresh_tokens' : row.user_id = sreq[s].email

\* the step in which /refresh of s looks its token up
LooksUp(s) == spc[s] = "refreshSelect" /\ spc'[s] # "refreshSelect"

Stale(t) == t \in issued /\ \A row \in refresh_tokens : row.token # t

StaleRejected ==
  \A s \in Sessions : (LooksUp(s) /\ Stale(sreq[s].token)) =>
    /\ spc'[s] = "idle"
    /\ sres'[s].status = 401
    /\ sres'[s].accessToken = {}
    /\ holders' = holders

C20_OneActiveToken == []OneRowPerUser /\ [][LoginReplaces /\ StaleRejected]_vars

\* u1 logged in at second 0 and again at second 1; /refresh with the token of
\* the first login was answered 401 while the token of the second is stored
C20_Witness ==
  \E s \in Sessions :
    /\ sreq[s].op = "refresh"
    /\ sreq[s].token = <<"u1", 0>>
    /\ sreq[s].token \in issued
    /\ spc[s] = "idle"
    /\ sres[s] = Plain(401, "Invalid refresh token")
    /\ RowsOf("u1") = {[user_id |-> "u1", token |-> <<"u1", 1>>, expired |-> FALSE]}

\* C21: a logout leaves its user without a stored refresh token, and only a
\* login of that user stores one again; while the user has no stored token,
\* every /refresh that looks up a token issued to that user is answered 401
\* without an access token. /refresh sends an access token only after its
\* lookup found the presented token stored and unexpired and its user is
\* active and verified; when it found the row expired or the user unverified,
\* its next store call leaves the user without a stored token.
LogoutDeletes ==
  \A s \in Sessions, u \in Users : Logout(s, u) =>
    /\ RowsOf(u)' = {}
    /\ sres'[s].status = 200
    /\ sres'[s].accessToken = {}

OnlyLoginStores ==
  \A u \in Users : (RowsOf(u) = {} /\ RowsOf(u)' # {}) =>
    \E s \in Sessions : LoginAnswers(s) /\ sreq[s].email = u

LoggedOutRejected ==
  \A s \in Sessions :
    (LooksUp(s) /\ sreq[s].token \in issued /\ RowsOf(sreq[s].token[1]) = {}) =>
      /\ spc'[s] = "idle"
      /\ sres'[s].status = 401
      /\ sres'[s].accessToken = {}
      /\ holders' = holders

\* the lookup lets the handler go on to the user check only for a stored,
\* unexpired token, and to the delete only for a stored, expired one
LookupPasses ==
  \A s \in Sessions : LooksUp(s) =>
    /\ spc'[s] = "refreshUser" =>
         \E row \in refresh_tokens :
           row.user_id = sreq[s].token[1] /\ row.token = sreq[s].token /\ ~row.expired
    /\ (\E row \in refresh_tokens : row.token = sreq[s].token /\ row.expired) =>
         spc'[s] = "refreshDeleteExpired"

\* the step in which a /refresh of s sends an access token
RefreshIssues(s) ==
  /\ sreq[s].op = "refresh"
  /\ spc[s] # "idle" /\ spc'[s] = "idle"
  /\ sres'[s].accessToken # {}

IssuesOnlyWhenValid ==
  \A s \in Sessions : RefreshIssues(s) =>
    /\ spc[s] = "refreshUser"
    /\ sres'[s].accessToken = {sreq[s].token[1]}
    /\ users[sreq[s].token[1]].is_active
    /\ users[sreq[s].token[1]].email_verified

DeletesStored ==
  \A s \in Sessions :
    (spc[s] \in {"refreshDeleteExpired", "refreshDeleteUnverified"} /\ spc'[s] # spc[s]) =>
      /\ RowsOf(sreq[s].token[1])' = {}
      /\ sres'[s].status = 401
      /\ sres'[s].accessToken = {}

C21_LogoutEndsSession ==
  [][LogoutDeletes /\ OnlyLoginStores /\ LoggedOutRejected /\ LookupPasses
       /\ IssuesOnlyWhenValid /\ DeletesStored]_vars

\* u1 logged in and logged out; /refresh with the token of that login was
\* then answered 401
C21_Witness ==
  /\ sreq["s1"].op = "logout" /\ sreq["s1"].email = "u1"
  /\ spc["s1"] = "idle" /\ sres["s1"].status = 200
  /\ sreq["s2"].op = "refresh" /\ sreq["s2"].token \in issued
  /\ sreq["s2"].token[1] = "u1"
  /\ spc["s2"] = "idle"
  /\ sres["s2"] = Plain(401, "Invalid refresh token")
  /\ RowsOf("u1") = {}
  /\ authOps = 3

\* ------------------------------------------------- POST /forgot-password
\* the state the forgot-password handler leaves alone
forgotFrame == <<products, orders, order_items, lock, orderVars, stock0, adminVars, fnVars,
                 migVars, users, refresh_tokens, sec, tokens, issued, holders, refreshToken>>

\* the email addresses a request can carry: those of the users, one without
\* an account, and a string that is no email address
Emails == Users \cup {"u3", "not-an-email"}

\* body('email').isEmail()
isEmail(e) == e # "not-an-email"

\* generateVerificationCode() draws a code at random
ResetCodes == 1..MaxCodes

\* res.json({ success: true, message: 'If an account with that email exists,
\* a password reset code has been sent.' })
ForgotAnswer == Plain(200, "")

\* the request arrives and is validated
ForgotCall(s, email) ==
  /\ Arrive(s, "forgot-password", email, "", 0, <<>>)
  /\ IF ~isEmail(email)
       THEN Answer(s, Plain(400, "Please provide a valid email address"))
       ELSE spc' = [spc EXCEPT ![s] = "forgotSelect"] /\ sres' = sres
  /\ UNCHANGED <<password_reset_code, sent, gateVars, viewVars, forgotFrame>>

\* mutant: an unknown email is answered 404
ForgotSelect_Reveals(s, ok) ==
  /\ spc[s] = "forgotSelect"
  /\ IF ~ok THEN Answer(s, ForgotAnswer)
     ELSE IF sreq[s].email \notin DOMAIN users \/ ~users[sreq[s].email].is_active
       THEN Answer(s, Plain(404, "No account with that email"))
     ELSE spc' = [spc EXCEPT ![s] = "forgotUpdate"] /\ sres' = sres
  /\ UNCHANGED <<password_reset_code, sent, sreq, authOps, gateVars, viewVars, forgotFrame>>

\* requestPasswordReset: SELECT id, email, full_name FROM users WHERE email =
\* $1 AND is_active = true; the handler swallows what requestPasswordReset throws
ForgotSelect(s, ok) ==
  /\ spc[s] = "forgotSelect"
  /\ IF ~ok \/ sreq[s].email \notin DOMAIN users \/ ~users[sreq[s].email].is_active
       THEN Answer(s, ForgotAnswer)
       ELSE spc' = [spc EXCEPT ![s] = "forgotUpdate"] /\ sres' = sres
  /\ UNCHANGED <<password_reset_code, sent, sreq, authOps, gateVars, viewVars, forgotFrame>>

\* UPDATE users SET password_reset_code = $1, ... WHERE id = $3
ForgotUpdate(s, ok, resetCode) ==
  /\ spc[s] = "forgotUpdate"
  /\ IF ~ok
       THEN Answer(s, ForgotAnswer) /\ UNCHANGED password_reset_code
       ELSE /\ password_reset_code' =
                 [password_reset_code EXCEPT ![sreq[s].email] =
                    IF sreq[s].email \in DOMAIN users THEN {resetCode} ELSE @]
            /\ spc' = [spc EXCEPT ![s] = "forgotSend"]
            /\ sres' = sres
  /\ UNCHANGED <<sent, sreq, authOps, gateVars, viewVars, forgotFrame>>

\* sendPasswordResetCode(user.email, resetCode, user.full_name), and the answer
ForgotSend(s, ok) ==
  /\ spc[s] = "forgotSend"
  /\ sent' = IF ok THEN sent \cup {<<sreq[s].email, password_reset_code[sreq[s].email]>>}
             ELSE sent
  /\ Answer(s, ForgotAnswer)
  /\ UNCHANGED <<password_reset_code, sreq, authOps, gateVars, viewVars, forgotFrame>>

NextForgot ==
  \/ \E s \in Sessions, e \in Emails : ForgotCall(s, e)
  \/ \E s \in Sessions, ok \in BOOLEAN : ForgotSelect(s, ok)
  \/ \E s \in Sessions, ok \in BOOLEAN, c \in ResetCodes : ForgotUpdate(s, ok, c)
  \/ \E s \in Sessions, ok \in BOOLEAN : ForgotSend(s, ok)

\* one user has an account, the other addresses have none
InitOneUser ==
  /\ InitBase(NoCatalog)
  /\ tokens = 1
  /\ users = [u \in {"u1"} |-> VerifiedRow(NewUser("pw"))]

SpecForgot == InitOneUser /\ [][NextForgot]_vars

\* C22: every answered /forgot-password request with a syntactically valid
\* email has the same 200 response, whether the account exists or not and
\* whether or not the store or the mailer failed; two requests that differ in
\* the existence of the account have equal responses.
ForgotAnswered(s) ==
  sreq[s].op = "forgot-password" /\ spc[s] = "idle" /\ isEmail(sreq[s].email)

C22_NoEnumeration ==
  \A s, t \in Sessions :
    (ForgotAnswered(s) /\ ForgotAnswered(t)) =>
      /\ sres[s] = sres[t]
      /\ sres[s].status = 200
      /\ sres[s].accessToken = {} /\ sres[s].refreshToken = <<>>

\* the request for u1, who has an account, stored a code and sent the mail;
\* the request for u3, who has none, was answered too
C22_Witness ==
  /\ ForgotAnswered("s1") /\ sreq["s1"].email = "u1"
  /\ password_reset_code["u1"] # {}
  /\ \E m \in sent : m[1] = "u1"
  /\ ForgotAnswered("s2") /\ sreq["s2"].email = "u3"

\* ------------------------------------- router.use(authenticate, requireAdmin)
\* the state the two middlewares leave alone
gateFrame == <<products, orders, order_items, lock, orderVars, stock0, adminVars, fnVars,
               authVars, migVars, resetVars, viewVars, user_roles>>

\* what a request can carry as access token: nothing, a string jwt.verify
\* rejects (bad signature or expired), or a token signed for a user id
AccessTokens ==
  {NoToken, [kind |-> "rejected", userId |-> "u1"]}
    \cup [kind : {"signed"}, userId : Users \cup {"u3"}]

GateAnswer(a, status, error) ==
  /\ gres' = [gres EXCEPT ![a] = [status |-> status, error |-> error, products |-> {}]]
  /\ gpc' = [gpc EXCEPT ![a] = "answered"]

\* the handler of the request that passed has answered
HandlerDone(a) == gpc[a] = "passed" /\ apc[a] = "idle" /\ passedAt[a] < adminOps

\* a request to a route under /admin arrives
GateArrive(a, token) ==
  /\ gpc[a] \in {"idle", "answered"} \/ HandlerDone(a)
  /\ gateOps < MaxGateOps
  /\ gateOps' = gateOps + 1
  /\ greq' = [greq EXCEPT ![a] = token]
  /\ gres' = [gres EXCEPT ![a] = NoGateRes]
  /\ gpc' = [gpc EXCEPT ![a] = "authenticate"]
  /\ UNCHANGED <<passedAt, gateFrame>>

\* authenticate: the token, verifyAccessToken, and SELECT ... FROM users WHERE
\* id = $1 AND is_active = true; every error caught is a 401
Authenticate(a, ok) ==
  /\ gpc[a] = "authenticate"
  /\ IF greq[a].kind = "none"
       THEN GateAnswer(a, 401, "Authentication required. Please provide a valid token.")
     ELSE IF greq[a].kind = "rejected" \/ ~ok
       THEN GateAnswer(a, 401, "Invalid authentication token.")
     ELSE IF greq[a].userId \notin DOMAIN users \/ ~users[greq[a].userId].is_active
       THEN GateAnswer(a, 401, "User not found or account is inactive.")
     ELSE gpc' = [gpc EXCEPT ![a] = "requireAdmin"] /\ gres' = gres
  /\ UNCHANGED <<greq, passedAt, gateOps, gateFrame>>

\* mutant: requireAdmin lets every authenticated user pass
RequireAdmin_AnyRole(a, ok) ==
  /\ gpc[a] = "requireAdmin"
  /\ IF ~ok
       THEN GateAnswer(a, 500, "Error checking admin privileges.") /\ passedAt' = passedAt
       ELSE /\ gpc' = [gpc EXCEPT ![a] = "passed"]
            /\ passedAt' = [passedAt EXCEPT ![a] = adminOps]
            /\ gres' = gres
  /\ UNCHANGED <<greq, gateOps, gateFrame>>

\* requireAdmin: SELECT role FROM user_roles WHERE user_id = $1 AND role =
\* 'admin'; 403 without a row, 500 when the query fails
RequireAdmin(a, ok) ==
  /\ gpc[a] = "requireAdmin"
  /\ IF ~ok
       THEN GateAnswer(a, 500, "Error checking admin privileges.") /\ passedAt' = passedAt
     ELSE IF <<greq[a].userId, "admin">> \notin user_roles
       THEN GateAnswer(a, 403, "Admin access required.") /\ passedAt' = passedAt
     ELSE /\ gpc' = [gpc EXCEPT ![a] = "passed"]
          /\ passedAt' = [passedAt EXCEPT ![a] = adminOps]
          /\ gres' = gres
  /\ UNCHANGED <<greq, gateOps, gateFrame>>

\* the route handler runs after both middlewares called next(), once
Passed(a) == gpc[a] = "passed" /\ passedAt[a] = adminOps

\* GET /products: SELECT ... FROM products, answered with the rows
AdminGetProducts(a) ==
  /\ Passed(a)
  /\ apc[a] = "idle"
  /\ adminOps < MaxAdminOps
  /\ adminOps' = adminOps + 1
  /\ gres' = [gres EXCEPT ![a] = [status |-> 200, error |-> "",
                                  products |-> {products[p] : p \in DOMAIN products}]]
  /\ UNCHANGED <<products, orders, order_items, lock, orderVars, stock0, apc, areq, current,
                 fnVars, authVars, migVars, resetVars, viewVars, user_roles, gpc, greq,
                 passedAt, gateOps>>

NextGate ==
  \/ \E a \in Admins, t \in AccessTokens : GateArrive(a, t)
  \/ \E a \in Admins, ok \in BOOLEAN : Authenticate(a, ok)
  \/ \E a \in Admins, ok \in BOOLEAN : RequireAdmin(a, ok)
  \/ \E a \in Admins : AdminGetProducts(a)
  \/ \E a \in Admins, b \in CreateBodies : Passed(a) /\ AdminCreateProduct(a, b)
  \/ \E a \in Admins, p \in ProductIds, b \in PatchBodies :
       Passed(a) /\ AdminPatchSelect(a, p, b)
  \/ \E a \in Admins : AdminPatchUpdate(a)
  \/ \E a \in Admins, p \in ProductIds : Passed(a) /\ AdminDeleteProduct(a, p)
  \/ \E a \in Admins, o \in Reqs, st \in StatusInputs :
       Passed(a) /\ AdminUpdateOrderStatus(a, o, st)

\* one product in the catalog; u1 and u2 are verified users, u1 is an admin
OneProduct == {c \in Catalogs : DOMAIN c = {"p1"}}

InitGate ==
  /\ InitBase(OneProduct)
  /\ tokens = Cardinality(Users)
  /\ users = [u \in Users |-> VerifiedRow(NewUser("pw"))]

SpecGate == InitGate /\ [][NextGate]_vars

\* C23: a handler of an /admin route takes a step only for a request whose
\* token verifies, whose user exists and is active, and whose user has an
\* 'admin' row in user_roles; a request without such a token is answered 401,
\* an authenticated request whose role lookup finds no admin row is answered
\* 403, and a rejected request reads and changes no product and no order.
Authenticated(t) ==
  t.kind = "signed" /\ t.userId \in DOMAIN users /\ users[t.userId].is_active

IsAdmin(t) == <<t.userId, "admin">> \in user_roles

\* a step of the route handler of a
HandlerStep(a) ==
  \/ apc'[a] # apc[a]
  \/ adminOps' # adminOps
  \/ products' # products \/ orders' # orders \/ order_items' # order_items
  \/ gres'[a].products # {} /\ gres'[a] # gres[a]

HandlerGated ==
  \A a \in Admins : HandlerStep(a) =>
    Authenticated(greq[a]) /\ IsAdmin(greq[a]) /\ gres[a].status = 0

\* the step in which a middleware answers the request of a
Rejects(a) == gpc[a] \in {"authenticate", "requireAdmin"} /\ gpc'[a] = "answered"

RejectedUntouched ==
  \A a \in Admins : Rejects(a) =>
    /\ gres'[a].status \in {401, 403, 500}
    /\ gres'[a].products = {}
    /\ ~Authenticated(greq[a]) => gres'[a].status = 401
    /\ gpc[a] = "authenticate" => gres'[a].status = 401
    /\ gpc[a] = "requireAdmin" =>
         /\ Authenticated(greq[a])
         /\ gres'[a].status \in {403, 500}
         /\ gres'[a].status = 403 => ~IsAdmin(greq[a])
         /\ (~IsAdmin(greq[a]) /\ gres'[a].status # 500) => gres'[a].status = 403
    /\ UNCHANGED <<products, orders, order_items, adminVars>>

\* a request that was answered by a middleware stays without a handler step
NoHandlerAfterReject ==
  \A a \in Admins : gpc[a] = "answered" =>
    gres[a].status \in {401, 403, 500} /\ gres[a].products = {} /\ apc[a] = "idle"

RECURSIVE SumQuantity(_)
SumQuantity(rows) ==
  IF rows = {} THEN 0
  ELSE LET row == CHOOSE x \in rows : TRUE
       IN row.quantity + SumQuantity(rows \ {row})

ItemsFor(p) == {it \in order_items : it.product_id = p}

C24_StockConservation ==
  \A p \in DOMAIN products :
    stock0[p].stock_quantity - products[p].stock_quantity = SumQuantity(ItemsFor(p))

\* both orders are committed and both took p1
C24_Witness ==
  /\ Committed("r1") /\ Committed("r2")
  /\ \E i \in ItemsFor("p1") : i.order_id = "r1"
  /\ \E i \in ItemsFor("p1") : i.order_id = "r2"
  /\ stock0["p1"].stock_quantity - products["p1"].stock_quantity = 2

\* ------------------------------ PATCH /products next to POST /orders
\* a PATCH that names no stock_quantity
RenameBodies == {b \in PatchBodies : b.stock_quantity = {}}

\* one admin PATCH without stock_quantity next to one order
NextPatch ==
  \/ \E b \in LeanBodies : Receive("r1", b)
  \/ Steps
  \/ \E a \in Admins, p \in ProductIds, b \in RenameBodies : AdminPatchSelect(a, p, b)
  \/ \E a \in Admins : AdminPatchUpdate(a)

SpecPatch == Init /\ [][NextPatch]_vars

Repeated(r) ==
  {p \in ProductIds : \E i, j \in 1..Len(req[r].items) :
     i # j /\ req[r].items[i].productId = p /\ req[r].items[j].productId = p}

\* the quantity of p in the lines before the current one
Earlier(r, p) == SumQty(SubSeq(req[r].items, 1, idx[r] - 1), p)

LaterLineSees ==
  \A r \in Reqs :
    (pc[r] = "select" /\ pc'[r] \in {"update", "rollbackInsufficient"}
       /\ Item(r).productId \in Repeated(r)) =>
      LET p == Item(r).productId IN
        /\ product'[r].stock_quantity = products[p].stock_quantity - Earlier(r, p)
        /\ pc'[r] = "rollbackInsufficient" <=>
             products[p].stock_quantity < Earlier(r, p) + Item(r).quantity

CommitsWithinStock ==
  \A r \in Reqs : IsCommitOf(r) =>
    \A p \in Repeated(r) :
      /\ lock[p] = r
      /\ QtyOf(r, p) <= products[p].stock_quantity
      /\ products'[p].stock_quantity = products[p].stock_quantity - QtyOf(r, p)

RefusedBeyondStock ==
  \A r \in Reqs :
    (pc[r] = "rollbackInsufficient" /\ pc'[r] = "done"
       /\ Item(r).productId \in Repeated(r)) =>
      /\ lock[Item(r).productId] = r
      /\ QtyOf(r, Item(r).productId) > products[Item(r).productId].stock_quantity
      /\ res'[r][Len(res'[r])].status = 400
      /\ UNCHANGED <<products, orders, order_items>>

C26_RepeatedProduct ==
  [][LaterLineSees /\ CommitsWithinStock /\ RefusedBeyondStock]_vars

\* r1 asked for p1 in two lines of one unit each with two in stock, and its
\* order is committed
C26_Witness ==
  /\ Committed("r1")
  /\ Len(req["r1"].items) = 2
  /\ Repeated("r1") = {"p1"}
  /\ QtyOf("r1", "p1") = 2
  /\ stock0["p1"].stock_quantity = 2
  /\ products["p1"].stock_quantity = 0
  /\ ~products["p1"].in_stock

\* C27: the admin status update, whatever status it is asked to set, leaves
\* every product, every order item and every other order as they were, and of
\* the order it names it changes at most the status: a cancelled order keeps
\* its quantities out of the stock.
SameButStatus(row, new) == [new EXCEPT !.status = row.status] = row

StatusUpdateFrame ==
  \A a \in Admins, o \in Reqs, s \in StatusInputs :
    AdminUpdateOrderStatus(a, o, s) =>
      /\ products' = products
      /\ order_items' = order_items
      /\ lock' = lock
      /\ \A row \in orders : row.id # o => row \in orders'
      /\ \A row \in orders : row.id = o =>
           \E new \in orders' : new.id = o /\ SameButStatus(row, new)
      /\ Cardinality(orders') = Cardinality(orders)

C27_StatusTouchesNoStock == [][StatusUpdateFrame]_vars

\* the order of r1 is cancelled and the stock it took is still missing
C27_Witness ==
  /\ \E row \in orders : row.id = "r1" /\ row.status = "cancelled"
  /\ \E p \in DOMAIN products :
       /\ QtyOf("r1", p) > 0
       /\ products[p].stock_quantity = stock0[p].stock_quantity - QtyOf("r1", p)
  /\ ItemsOf("r1") # {}

\* C28: the response follows the outcome of the transaction.  A request is
\* answered at most once.  The 201 is sent in the step in which COMMIT
\* succeeds, and a request that was answered 201 has its order, all its items
\* and its stock decrements in the committed tables.  A 400 is sent only when
\* the transaction of the request, if it began, has been rolled back: a
\* request that was answered 400 has no order and no item in the committed
\* tables, holds no lock and has no open transaction, and the committed stock
\* is the stock at the start less the quantities of the committed orders.
Got(r, status) == \E i \in 1..Len(res[r]) : res[r][i].status = status

AnsweredOnce == \A r \in Reqs : Len(res[r]) <= 1

Got201Committed ==
  \A r \in Reqs : Got(r, 201) =>
    /\ Committed(r)
    /\ ItemsOf(r) = AllItems(r)
    /\ tx[r] = NoTx /\ LockedBy(r) = {}

Got400Invisible ==
  \A r \in Reqs : Got(r, 400) =>
    /\ ~Committed(r)
    /\ ItemsOf(r) = {}
    /\ tx[r] = NoTx /\ LockedBy(r) = {}

\* a 201 appears in the COMMIT step and nowhere else; a business-rule 400
\* appears in the ROLLBACK step of its branch
AnswerSteps ==
  \A r \in Reqs :
    /\ (~Got(r, 201) /\ Got(r, 201)') => (pc[r] = "commit" /\ Committed(r)')
    /\ (~Got(r, 400) /\ Got(r, 400)' /\ tx[r] # NoTx) =>
         /\ pc[r] \in {"rollbackNotFound", "rollbackInsufficient", "catch"}
         /\ tx'[r] = NoTx
         /\ UNCHANGED <<products, orders, order_items>>

C28_ResponseFollowsOutcome ==
  [](AnsweredOnce /\ Got201Committed /\ Got400Invisible /\ StockMatchesCommitted)
    /\ [][AnswerSteps]_vars

\* r1 was answered 201 and is committed; r2 was answered 400 and left nothing
C28_Witness ==
  /\ Got("r1", 201) /\ Committed("r1")
  /\ Got("r2", 400) /\ ~Committed("r2")
  /\ Len(req["r2"].items) = 2
  /\ pc["r1"] = "done" /\ pc["r2"] = "done"

\* ------------------------------------- GET /orders and GET /orders/:orderId
\* the state the two GET handlers leave alone
viewFrame == <<products, orders, order_items, lock, orderVars, stock0, adminVars, fnVars,
               authVars, migVars, resetVars, gateVars>>

\* the order ids of the model are the names of the requests that placed them
OrderIds == Reqs

\* what a requester can send as :orderId
OrderIdInputs == OrderIds \cup {"not-a-uuid"}

\* param('orderId').isUUID()
isOrderUUID(o) == o \in OrderIds

ViewAnswer(v, status, entries) ==
  /\ vres' = [vres EXCEPT ![v] = [status |-> status, orders |-> entries]]
  /\ vpc' = [vpc EXCEPT ![v] = "idle"]
  /\ vrows' = [vrows EXCEPT ![v] = {}]

\* a GET request of the authenticated user v arrives
ViewArrive(v, op, o) ==
  /\ vpc[v] = "idle"
  /\ views < MaxViews
  /\ views' = views + 1
  /\ vreq' = [vreq EXCEPT ![v] = [op |-> op, orderId |-> o]]

\* GET /orders, first query: SELECT ... FROM orders WHERE user_id = $1
ListOrdersSelect(v) ==
  /\ ViewArrive(v, "list", "")
  /\ LET rows == {row \in orders : row.user_id = v} IN
       IF rows = {}
         THEN ViewAnswer(v, 200, {})
         ELSE /\ vrows' = [vrows EXCEPT ![v] = rows]
              /\ vpc' = [vpc EXCEPT ![v] = "listItems"]
              /\ vres' = [vres EXCEPT ![v] = NoViewRes]
  /\ UNCHANGED viewFrame

\* GET /orders, second query: SELECT ... FROM order_items WHERE order_id =
\* ANY($1), grouped by order_id
ListOrdersItems(v) ==
  /\ vpc[v] = "listItems"
  /\ LET orderIds == {row.id : row \in vrows[v]}
         itemRows == {it \in order_items : it.order_id \in orderIds}
     IN ViewAnswer(v, 200,
          {[order |-> row,
            order_items |-> {it \in itemRows : it.order_id = row.id}] :
             row \in vrows[v]})
  /\ UNCHANGED <<vreq, views, viewFrame>>

\* mutant: the order is selected by its id alone
OwnOrder_AnyOwner(v, o) == {row \in orders : row.id = o}

\* SELECT ... FROM orders WHERE id = $1 AND user_id = $2 LIMIT 1
OwnOrder(v, o) == {row \in orders : row.id = o /\ row.user_id = v}

\* GET /orders/:orderId, validation and first query
GetOrderSelect(v, o) ==
  /\ ViewArrive(v, "get", o)
  /\ IF ~isOrderUUID(o) THEN ViewAnswer(v, 400, {})
     ELSE IF OwnOrder(v, o) = {} THEN ViewAnswer(v, 404, {})
     ELSE /\ vrows' = [vrows EXCEPT ![v] = OwnOrder(v, o)]
          /\ vpc' = [vpc EXCEPT ![v] = "getItems"]
          /\ vres' = [vres EXCEPT ![v] = NoViewRes]
  /\ UNCHANGED viewFrame

\* GET /orders/:orderId, second query: SELECT ... FROM order_items WHERE order_id = $1
GetOrderItems(v) ==
  /\ vpc[v] = "getItems"
  /\ ViewAnswer(v, 200,
       {[order |-> row,
         order_items |-> {it \in order_items : it.order_id = vreq[v].orderId}] :
          row \in vrows[v]})
  /\ UNCHANGED <<vreq, views, viewFrame>>

ViewSteps ==
  \/ \E v \in Users : ListOrdersSelect(v)
  \/ \E v \in Users : ListOrdersItems(v)
  \/ \E v \in Users, o \in OrderIdInputs : GetOrderSelect(v, o)
  \/ \E v \in Users : GetOrderItems(v)

\* the two users place one order each and read their orders meanwhile
NextOrders ==
  \/ \E r \in Reqs, b \in OneItemBodies : Receive(r, b)
  \/ Steps
  \/ ViewSteps

SpecOrders == InitWith(BothCatalogs) /\ [][NextOrders]_vars

\* C29: every order in a response to GET /orders or GET /orders/:orderId
\* belongs to the requester and comes with exactly the order items of that
\* order; GET /orders/:orderId for an order of another user is answered 404
\* with no order and no item; no response of one user holds an order of the
\* other.
OwnEntriesOnly ==
  \A v \in Users : \A e \in vres[v].orders :
    /\ e.order.user_id = v
    /\ e.order \in orders
    /\ e.order_items = {it \in order_items : it.order_id = e.order.id}
    /\ vres[v].status = 200
    /\ vreq[v].op = "get" => e.order.id = vreq[v].orderId

NoForeignRows ==
  \A v \in Users : \A row \in vrows[v] : row.user_id = v

\* the step in which GET /orders/:orderId of v looks up an order that another
\* user owns
ForeignLookup(v) ==
  /\ vpc[v] = "idle" /\ views' = views + 1
  /\ vreq'[v].op = "get"
  /\ vreq' # vreq \/ vres' # vres \/ vpc' # vpc
  /\ \A w \in Users \ {v} : vreq'[w] = vreq[w] /\ vres'[w] = vres[w] /\ vpc'[w] = vpc[w]
  /\ \E row \in orders : row.id = vreq'[v].orderId /\ row.user_id # v

ForeignIs404 ==
  \A v \in Users : ForeignLookup(v) =>
    /\ vres'[v] = [status |-> 404, orders |-> {}]
    /\ vpc'[v] = "idle"
    /\ vrows'[v] = {}

C29_OwnershipIsolation ==
  [](OwnEntriesOnly /\ NoForeignRows) /\ [][ForeignIs404]_vars

\* u1 listed its one order with its item, and u2 asked for that order by id
\* and was answered 404
C29_Witness ==
  /\ vreq["u1"].op = "list" /\ vres["u1"].status = 200
  /\ \E e \in vres["u1"].orders : e.order.id = "r1" /\ e.order_items # {}
  /\ vreq["u2"] = [op |-> "get", orderId |-> "r1"]
  /\ vres["u2"] = [status |-> 404, orders |-> {}]
  /\ Committed("r2")

\* the caller c made the only two calls so far: a decrement_stock that
\* returned true, and the restore_stock that is about to run
PairOf(c) ==
  /\ calls = 2
  /\ fret[c] = <<"true">>
  /\ fpc[c] = "restore_stock"
  /\ \A d \in Callers \ {c} : fpc[d] = "idle" /\ fret[d] = <<>>

\* the decrement_stock of the pair was decrement_stock(p, q): it is the only
\* call that ran, so it took exactly what the row of p lost since the start
DecrementedBy(p, q) ==
  /\ p \in DOMAIN products
  /\ stock0[p].stock_quantity - products[p].stock_quantity = q
  /\ \A o \in DOMAIN products \ {p} : products[o] = stock0[o]

\* decrement_stock(p, q) returned true, and restore_stock(p, q) ends in this
\* step
RoundTrip(c, p, q) ==
  /\ PairOf(c)
  /\ fargs[c].p_product_id = p
  /\ fargs[c].p_quantity = q
  /\ q >= 1
  /\ DecrementedBy(p, q)
  /\ stock0[p].in_stock = (stock0[p].stock_quantity > 0)
  /\ q <= stock0[p].stock_quantity
  /\ Returns(c, "restore_stock")

RoundTripRestores ==
  \A c \in Callers, p \in ProductIds, q \in FnQuantities :
    RoundTrip(c, p, q) =>
      /\ products'[p].stock_quantity = stock0[p].stock_quantity
      /\ products'[p].in_stock = stock0[p].in_stock
      /\ products' = stock0

RestoreOfMissingIsNoop ==
  \A c \in Callers :
    (Returns(c, "restore_stock") /\ fargs[c].p_product_id \notin DOMAIN products) =>
      /\ products' = products
      /\ Returned(c) = "void"
      /\ fpc'[c] = "idle"

\* C30: decrement/restore round trip.  For an existing product p with
\* in_stock = (stock_quantity > 0) and a quantity q with 1 <= q <=
\* stock_quantity, decrement_stock(p, q) returning true followed by
\* restore_stock(p, q) leaves stock_quantity and in_stock of p as they were
\* before the pair; restore_stock on a product id that does not exist
\* changes no row and returns normally.
C30_RoundTrip == [][RoundTripRestores /\ RestoreOfMissingIsNoop]_vars

\* a product with stock 1 was decremented by 1 to 0 (in_stock false) and
\* restored by 1, and a restore_stock on a missing id has returned void
C30_Witness ==
  /\ calls = 3
  /\ \E c \in Callers, p \in DOMAIN products :
       /\ fret[c] = <<"true", "void">>
       /\ fargs[c] = [fn |-> "restore_stock", p_product_id |-> p, p_quantity |-> 1]
       /\ stock0[p].stock_quantity = 1
       /\ products = stock0
       /\ \E d \in Callers \ {c} :
            /\ fret[d] = <<"void">>
            /\ fargs[d].p_product_id \notin DOMAIN products

====
